---- MODULE Spec2Model ----
(***************************************************************************)
(* The Active Directory join / leave lifecycle of the middleware           *)
(* (plugins/activedirectory.py): do_update with its start and stop         *)
(* sequences, leave, the membership probe and the job lock that serialises *)
(* them.  Every await that can raise is a step of its own; the outcome of  *)
(* an external command or collaborator is chosen by the environment.       *)
(***************************************************************************)
EXTENDS Integers, Sequences, FiniteSets, TLC

\* Number of job slots (requests that may be pending or running at once).
NJobs == 2

Jobs == 1..NJobs

----------------------------------------------------------------------------
\* Python values whose type matters in a comparison: a str and an enum
\* member never compare equal.
PyStr(s) == <<"str", s>>
DSStatus(name) == <<"DSStatus", name>>

\* DSStatus[...].name
DSStatusName(member) == member[2]

\* class neterr
neterr == {"JOINED", "NOTJOINED", "FAULT"}

----------------------------------------------------------------------------
\* Diagnostic text of 'net ads testjoin', as sequences of characters.
Sig1 == <<"0","x","f","f","f","f","f","f","f","6">>
Sig2 == <<"L","D","A","P","_","I","N","V","A","L","I","D","_","C","R","E","D","E","N","T","I","A","L","S">>
Sig3 == <<"T","h","e"," ","n","a","m","e"," ","p","r","o","v","i","d","e","d"," ","i","s"," ","n","o","t"," ","a"," ","p","r","o","p","e","r","l","y"," ","f","o","r","m","e","d"," ","a","c","c","o","u","n","t"," ","n","a","m","e">>
Sig4 == <<"T","h","e"," ","a","t","t","e","m","p","t","e","d"," ","l","o","g","o","n"," ","i","s"," ","i","n","v","a","l","i","d",".">>

\* the list errors_to_rejoin of neterr.to_status
errors_to_rejoin == <<Sig1, Sig2, Sig3, Sig4>>

\* `err in errstr` of Python: err occurs as a contiguous run of errstr.
IsSubstring(err, errstr) ==
    \E i \in 0..(Len(errstr) - Len(err)) : SubSeq(errstr, i + 1, i + Len(err)) = err

\* A to_status that forgets the last signature of the list.
to_status_dropLast(errstr) ==
    IF \E k \in 1..(Len(errors_to_rejoin) - 1) : IsSubstring(errors_to_rejoin[k], errstr)
    THEN "NOTJOINED"
    ELSE "FAULT"

\* neterr.to_status
to_status(errstr) ==
    IF \E k \in 1..Len(errors_to_rejoin) : IsSubstring(errors_to_rejoin[k], errstr)
    THEN "NOTJOINED"
    ELSE "FAULT"

\* Fragments the environment builds a diagnostic text from.  The middle
\* fragment is one of the four signatures, a near miss of one, or noise.
Fragment(name) ==
    CASE name = "sig1" -> Sig1
      [] name = "sig2" -> Sig2
      [] name = "sig3" -> Sig3
      [] name = "sig4" -> Sig4
      [] name = "lower2" -> <<"l","d","a","p","_","i","n","v","a","l","i","d","_","c","r","e","d","e","n","t","i","a","l","s">>
      [] name = "cut1" -> <<"0","x","f","f","f","f","f","f","f">>
      [] name = "cut4" -> <<"T","h","e"," ","a","t","t","e","m","p","t","e","d"," ","l","o","g","o","n"," ","i","s"," ","i","n","v","a","l","i","d">>
      [] name = "noise" -> <<"N","T","_","S","T","A","T","U","S","_","U","N","S","U","C","C","E","S","S","F","U","L">>
      [] name = "pre" -> <<"n","e","t",":"," ">>
      [] name = "post" -> <<" ","(","5",")">>
      [] OTHER -> <<>>

SigNames == {"sig1", "sig2", "sig3", "sig4"}
MidNames == SigNames \cup {"lower2", "cut1", "cut4", "noise", "empty"}

\* What `run(cmd, check=False)` hands back for testjoin: the exit status
\* and the stderr text, here kept as the three fragments it is made of.
NetadsRuns ==
    {[returncode |-> rc, pre |-> w[1], mid |-> m, post |-> w[2]] :
        rc \in {0, 1}, m \in MidNames, w \in {<<"empty", "empty">>, <<"pre", "post">>}}

NoRun == [returncode |-> -1, pre |-> "empty", mid |-> "empty", post |-> "empty"]

\* netads.stderr.decode()
Stderr(netads) == Fragment(netads.pre) \o Fragment(netads.mid) \o Fragment(netads.post)

\* The tail of _net_ads_testjoin: classify the finished command.
TestjoinResult(netads) ==
    IF netads.returncode # 0 THEN to_status(Stderr(netads)) ELSE "JOINED"

----------------------------------------------------------------------------
\* str.upper() on the domain names that occur.
Upper(s) ==
    CASE s = "example.com" -> "EXAMPLE.COM"
      [] OTHER -> s

\* The persisted directoryservice.activedirectory row (the fields the
\* lifecycle reads or writes).  kerberos_realm 0 and site "" stand for None.
FreshConfig ==
    [enable |-> FALSE, domainname |-> "", bindname |-> "",
     kerberos_realm |-> 0, kerberos_principal |-> "", site |-> ""]

\* id of the realm row that the start sequence finds or inserts
RealmId == 1

\* An ad_compress that leaves bindpw in the row.
ad_compress_keepPw(new) == new

\* ad_compress: drop the foreign keys and bindpw before the row is written.
ad_compress(new) ==
    [k \in (DOMAIN new) \ {"bindpw"} |-> new[k]]

----------------------------------------------------------------------------
\* The validation gate of do_update, as functions of the proposed row, the
\* stored row and the facts gathered from the collaborators.

\* ipaddress.ip_address(a): version and words (octets, or 16-bit groups).
IPv4(a, b, c, d) == [v |-> 4, w |-> <<a, b, c, d>>]
IPv6(h1, h8) == [v |-> 6, w |-> <<h1, 0, 0, 0, 0, 0, 0, h8>>]

\* addr.is_reserved: 240.0.0.0/4, or one of the reserved IPv6 networks
\* (::/8 ... 1000::/4, 4000::/3 ... f800::/6, fe00::/9).
is_reserved(addr) ==
    IF addr.v = 4 THEN addr.w[1] >= 240
    ELSE \/ addr.w[1] < 8192
         \/ addr.w[1] >= 16384 /\ addr.w[1] < 64512
         \/ addr.w[1] >= 65024 /\ addr.w[1] < 65152

\* addr.is_loopback: 127.0.0.0/8, or ::1
is_loopback(addr) ==
    IF addr.v = 4 THEN addr.w[1] = 127
    ELSE addr.w = <<0, 0, 0, 0, 0, 0, 0, 1>>

\* addr.is_link_local: 169.254.0.0/16, or fe80::/10
is_link_local(addr) ==
    IF addr.v = 4 THEN addr.w[1] = 169 /\ addr.w[2] = 254
    ELSE addr.w[1] >= 65152 /\ addr.w[1] < 65216

\* addr.is_multicast: 224.0.0.0/4, or ff00::/8
is_multicast(addr) ==
    IF addr.v = 4 THEN addr.w[1] >= 224 /\ addr.w[1] < 240
    ELSE addr.w[1] >= 65280

\* Address checks that skip the multicast test.
AddressErrors_noMulticast(addr) ==
    LET e1 == IF is_reserved(addr) THEN <<"reserved">> ELSE <<>>
        e2 == IF is_loopback(addr) THEN Append(e1, "loopback") ELSE e1
    IN IF is_link_local(addr) THEN Append(e2, "link-local") ELSE e2

\* Lines 245-276: the errors one address adds, in the order of the ifs.
AddressErrors(addr) ==
    LET e1 == IF is_reserved(addr) THEN <<"reserved">> ELSE <<>>
        e2 == IF is_loopback(addr) THEN Append(e1, "loopback") ELSE e1
        e3 == IF is_link_local(addr) THEN Append(e2, "link-local") ELSE e2
    IN IF is_multicast(addr) THEN Append(e3, "multicast") ELSE e3

\* Lines 236-276: `for a in addresses`, each error under allow_dns_updates
\* and naming its address (here: the place of the address in the list).
RECURSIVE DnsErrors(_, _)
DnsErrors(addresses, k) ==
    IF k > Len(addresses) THEN <<>>
    ELSE [i \in 1..Len(AddressErrors(addresses[k])) |->
                <<"activedirectory_update.allow_dns_updates", AddressErrors(addresses[k])[i], k>>]
         \o DnsErrors(addresses, k + 1)

\* Lines 169-185: the name collision and the existence of a changed realm.
\* facts.realms holds the ids of the realm rows.
EarlyErrors(new, old, facts) ==
    (IF ~facts.netbiosname_is_ours
        THEN << <<"activedirectory_update.netbiosname", "in use", 0>> >> ELSE <<>>)
    \o
    (IF new.kerberos_realm # 0 /\ new.kerberos_realm # old.kerberos_realm
            /\ new.kerberos_realm \notin facts.realms
        THEN << <<"activedirectory_update.kerberos_realm", "invalid", 0>> >> ELSE <<>>)

\* A comparison that never sees a changed realm.
RealmChanged_never(new, old) == FALSE

\* new["kerberos_realm"] != old["kerberos_realm"], of line 201 and, as
\* new[entry] != old[entry], of line 419.
RealmChanged(new, old) == new.kerberos_realm # old.kerberos_realm

\* Lines 190-222: the checks made when new['enable'] is set.
EnableErrors(new, old, facts) ==
    (IF ~facts.pool
        THEN << <<"activedirectory_update.enable", "no pool", 0>> >> ELSE <<>>)
    \o
    (IF facts.ldap_enabled
        THEN << <<"activedirectory_update.enable", "ldap enabled", 0>> >> ELSE <<>>)
    \o
    (IF new.enable /\ old.enable /\ RealmChanged(new, old)
        THEN << <<"activedirectory_update.kerberos_realm", "altered", 0>> >> ELSE <<>>)
    \o
    (IF new.bindpw = "" /\ new.kerberos_principal = ""
        THEN << <<"activedirectory_update.bindname", "no credentials", 0>> >> ELSE <<>>)
    \o
    (IF new.bindpw # "" /\ new.kerberos_principal # ""
        THEN << <<"activedirectory_update.kerberos_principal", "both", 0>> >> ELSE <<>>)
    \o
    (IF new.domainname = ""
        THEN << <<"activedirectory_update.domainname", "required", 0>> >> ELSE <<>>)

\* Lines 224-276: with allow_dns_updates; the standby node of an HA pair
\* returns before it resolves anything.
DnsUpdateErrors(new, facts) ==
    IF ~new.allow_dns_updates \/ facts.standby THEN <<>>
    ELSE (IF facts.addresses = <<>>
            THEN << <<"activedirectory_update.allow_dns_updates", "none", 0>> >> ELSE <<>>)
         \o DnsErrors(facts.addresses, 1)

\* A report that holds the first error only.
Report_firstOnly(entries) == IF entries = <<>> THEN <<>> ELSE <<entries[1]>>

\* verrors: every verrors.add of the pass is in the report.
Report(entries) == entries

\* common_validate: the entries added to verrors.
common_validate(new, old, facts) ==
    Report(IF ~new.enable THEN EarlyErrors(new, old, facts)
           ELSE EarlyErrors(new, old, facts) \o EnableErrors(new, old, facts)
                    \o DnsUpdateErrors(new, facts))

\* The members of KRB5ErrCode that lines 470-534 name, and one they do not.
KRB5ErrCode ==
    {"KRB5_LIBOS_CANTREADPWD", "KRB5KDC_ERR_CLIENT_REVOKED", "KRB5_CC_NOTFOUND",
     "KRB5KDC_ERR_POLICY", "KRB5KDC_ERR_C_PRINCIPAL_UNKNOWN", "KRB5KRB_AP_ERR_SKEW",
     "KRB5KDC_ERR_PREAUTH_FAILED", "KRB5_REALM_UNKNOWN"}

\* A classification that leaves a clock skew with the credential field.
ErrorKey_skewKept(krb5_code, kerberos_principal) ==
    LET key == IF kerberos_principal # "" THEN "activedirectory.kerberos_principal"
               ELSE "activedirectory.bindpw"
    IN IF krb5_code = "KRB5KDC_ERR_C_PRINCIPAL_UNKNOWN" /\ key = "activedirectory.bindpw"
       THEN "activedirectory.bindname" ELSE key

\* A classification that names the bind name for every unknown principal.
ErrorKey_alwaysBindname(krb5_code, kerberos_principal) ==
    LET key == IF kerberos_principal # "" THEN "activedirectory.kerberos_principal"
               ELSE "activedirectory.bindpw"
    IN CASE krb5_code = "KRB5KDC_ERR_C_PRINCIPAL_UNKNOWN" -> "activedirectory.bindname"
         [] krb5_code = "KRB5KRB_AP_ERR_SKEW" -> "activedirectory.domainname"
         [] OTHER -> key

\* Lines 465-536: the field of the ValidationError made from a KRB5Error.
ErrorKey(krb5_code, kerberos_principal) ==
    LET key == IF kerberos_principal # "" THEN "activedirectory.kerberos_principal"
               ELSE "activedirectory.bindpw"
    IN CASE krb5_code = "KRB5KDC_ERR_C_PRINCIPAL_UNKNOWN" ->
                IF key = "activedirectory.bindpw" THEN "activedirectory.bindname" ELSE key
         [] krb5_code = "KRB5KRB_AP_ERR_SKEW" -> "activedirectory.domainname"
         [] OTHER -> key

VARIABLES
    ds_state,   \* directoryservices state of 'activedirectory' (a name)
    config,     \* the persisted AD row
    workgroup,  \* cifs_srv_workgroup of the SMB configuration
    realms,     \* ids of the kerberos realm rows
    keytab,     \* an AD_MACHINE_ACCOUNT keytab row exists
    dc,         \* the domain controller: computer account, DNS records
    lock,       \* holder of the job lock "AD_start_stop" (0: free)
    job,        \* the jobs: position, locals, result
    netbiosname, \* netbiosname_local of the SMB configuration
    gate,       \* one pass through the validation of do_update, on its own
    PROCESSING_APP_EVENT, \* apps/events.py: the names of the apps being processed
    handler,    \* the invocations of app_event: position and locals
    app         \* the apps: state, undelivered events, what was read and sent

\* The variables of the docker event handler (apps/events.py).
appvars == <<PROCESSING_APP_EVENT, handler, app>>

vars == <<ds_state, config, workgroup, realms, keytab, dc, lock, job, netbiosname, gate, appvars>>

\* machine_acct = f'{ad["netbiosname"].upper()}$@{ad["domainname"]}';
\* ad_extend takes netbiosname from the SMB configuration.
MachineAcct(ad) == Upper(netbiosname) \o "$@" \o ad.domainname

\* The names the SMB configuration is given
NetbiosNames == {"NAS", "NAS2"}

\* No pass of the gate on its own is under way.
GateIdle == [pc |-> "off"]

IdleJob ==
    [kind |-> "none", pc |-> "idle", data |-> [enable |-> FALSE, bindpw |-> ""],
     old_enable |-> FALSE, ad |-> FreshConfig, ret |-> "None",
     err |-> "", left |-> FALSE, netads |-> NoRun, log |-> <<>>, progress |-> <<>>]

\* How many invocations of app_event may be under way at once.
NHandlers == 2

Handlers == 1..NHandlers

\* How many times an app changes state.
MaxChanges == 2

\* args['id'] of a docker event: the compose project of an app
ProjectNames == {"ix-plex", "ix-minio"}

\* ix_apps.utils.get_app_name_from_project_name: the project name without
\* its prefix.
get_app_name_from_project_name(project_name) ==
    CASE project_name = "ix-plex" -> "plex"
      [] project_name = "ix-minio" -> "minio"

Apps == {get_app_name_from_project_name(p) : p \in ProjectNames}

\* An invocation that is not running; outcome is how the last one ended.
IdleHandler == [pc |-> "idle", app_name |-> "", fields |-> -1, raised |-> FALSE,
                outcome |-> "none"]

\* An app nothing has happened to: state is the version of its state,
\* pending the events docker has not yet delivered, delivered the version
\* at the latest delivery, queried the version the latest app.query read,
\* sent the fields of the latest CHANGED event, last how the latest call
\* of process ended.
QuietApp == [state |-> 0, pending |-> 0, delivered |-> 0, queried |-> 0, sent |-> -1,
             last |-> "none"]

\* Line 7: PROCESSING_APP_EVENT = set()
InitApps ==
    /\ PROCESSING_APP_EVENT = {}
    /\ handler = [h \in Handlers |-> IdleHandler]
    /\ app = [a \in Apps |-> QuietApp]

\* A fresh appliance: disabled, not joined, no job, no docker event.
InitSystem ==
    /\ InitApps
    /\ ds_state = "DISABLED"
    /\ config = FreshConfig
    /\ workgroup = "WORKGROUP"
    /\ realms = {}
    /\ keytab = FALSE
    /\ dc = [account |-> FALSE, dns |-> FALSE]
    /\ lock = 0
    /\ job = [j \in Jobs |-> IdleJob]
    /\ netbiosname = "NAS"

Init ==
    /\ InitSystem
    /\ gate = GateIdle

----------------------------------------------------------------------------
\* Helpers on the job records.

At(j, where) == job[j].pc = where

Logged(r, ev) == [r EXCEPT !.log = Append(@, ev)]

Goto(r, where) == [r EXCEPT !.pc = where]

\* An exception with the given tag leaves the current function.
Raised(r, tag, where) == [Logged(r, "raise:" \o tag) EXCEPT !.pc = where, !.err = tag]

\* job.set_progress(percent, description): the job's reports, in order.
set_progress(r, percent) == [r EXCEPT !.progress = Append(@, percent)]

Count(log, ev) == Cardinality({i \in 1..Len(log) : log[i] = ev})

Has(log, ev) == \E i \in 1..Len(log) : log[i] = ev

Free(j) == job[j].pc = "idle"

\* await self.get_state(): the name stored by set_state, a str.
get_state == PyStr(ds_state)

----------------------------------------------------------------------------
\* The job framework: a call of a @job(lock="AD_start_stop") method makes
\* a job that waits until the lock is free and holds it while it runs.

Requests == {"update", "leave"}

\* The payloads of do_update; the job reads its payload when it runs.
\* leave is given a user name and a password.
UpdatePayloads == [enable : BOOLEAN, bindpw : {"", "secret"}]

Submit(j) ==
    /\ Free(j)
    /\ \A i \in Jobs : i < j => ~Free(i)
    /\ \E rq \in Requests :
        job' = [job EXCEPT ![j] = [IdleJob EXCEPT !.kind = rq, !.pc = "waiting"]]
    /\ UNCHANGED <<ds_state, config, workgroup, realms, keytab, dc, lock, netbiosname, gate, appvars>>

\* A lock that is handed out although it is held.
LockFree_ignoreHolder == TRUE

LockFree == lock = 0

Acquire(j) ==
    /\ job[j].pc = "waiting"
    /\ LockFree
    /\ lock' = j
    /\ job' = [job EXCEPT ![j].pc = IF job[j].kind = "update" THEN "upd_validate" ELSE "lv_begin"]
    /\ UNCHANGED <<ds_state, config, workgroup, realms, keytab, dc, netbiosname, gate, appvars>>

\* The job function returned or raised: the lock is released and the
\* locals are gone.
JobEnd(j) ==
    /\ job[j].pc \in {"returning", "raising"}
    /\ lock' = 0
    /\ job' = [job EXCEPT ![j] = IdleJob]
    /\ UNCHANGED <<ds_state, config, workgroup, realms, keytab, dc, netbiosname, gate, appvars>>

----------------------------------------------------------------------------
\* do_update

\* new = old.copy(); new.update(data); new['domainname'] = new['domainname'].upper()
NewConfig(old, data) ==
    [old EXCEPT !.enable = data.enable, !.domainname = Upper("example.com"), !.bindname = "admin"]

\* The row as common_validate sees it: with the password of the payload
\* and with allow_dns_updates.
Proposed(new, bindpw, allow_dns_updates) ==
    [k \in (DOMAIN new) \cup {"bindpw", "allow_dns_updates"} |->
        IF k = "bindpw" THEN bindpw
        ELSE IF k = "allow_dns_updates" THEN allow_dns_updates
        ELSE new[k]]

\* The site of a payload: none, or one the administrator names.
ConfiguredSites == {"", "SiteM"}

\* What the collaborators report to an update of the running system: the
\* realm rows are the stored ones, the pool may be missing.
UpdFacts ==
    {[netbiosname_is_ours |-> TRUE, realms |-> realms, pool |-> p, ldap_enabled |-> FALSE,
      standby |-> FALSE, addresses |-> <<>>] : p \in BOOLEAN}

\* update_netbios_data (lines 145-164, called at line 375): a changed
\* name is written by smb.update when the service was not enabled, before
\* any check of the update is made.
NetbiosAfter(old_enable, name, smb_ok) ==
    IF name # netbiosname /\ ~old_enable /\ smb_ok THEN name ELSE netbiosname

\* Lines 368-555: update_netbios_data, common_validate, verrors.check(),
\* then the checks that raise one ValidationError each.  The payload
\* carries, besides enable and bindpw, a NetBIOS name, a realm id and a
\* site.
UpdValidate(j) ==
    /\ At(j, "upd_validate")
    /\ \E data \in UpdatePayloads, name \in NetbiosNames, realm \in {0, RealmId},
          site \in ConfiguredSites, facts \in UpdFacts :
       \E smb_ok \in (IF name # netbiosname /\ ~config.enable THEN BOOLEAN ELSE {TRUE}),
          envOk \in (IF data.enable /\ ~config.enable THEN BOOLEAN ELSE {TRUE}) :
        LET old == config
            new == [NewConfig(old, data) EXCEPT !.kerberos_realm = realm, !.site = site]
            r == [job[j] EXCEPT !.data = data, !.ad = new, !.old_enable = old.enable]
            verrors == common_validate(Proposed(new, data.bindpw, FALSE), old, facts)
            netbiosFailed == name # netbiosname /\ (old.enable \/ ~smb_ok)
            rejected == \/ new.enable /\ old.enable /\ RealmChanged(new, old)
                        \/ new.enable /\ ~old.enable /\ ~envOk
                        \/ ~new.enable /\ data.bindpw # ""
        IN /\ netbiosname' = NetbiosAfter(old.enable, name, smb_ok)
           /\ job' = [job EXCEPT ![j] =
                IF netbiosFailed THEN Raised(r, "ValidationError", "raising")
                ELSE IF verrors # <<>> THEN Raised(r, "ValidationErrors", "raising")
                ELSE IF rejected THEN Raised(r, "ValidationError", "raising")
                ELSE Goto(r, "upd_persist")]
    /\ UNCHANGED <<ds_state, config, workgroup, realms, keytab, dc, lock, gate, appvars>>

\* A dispatch that starts on every enabling update.
Dispatch_startWhenEnabled(old_enable, new_enable) ==
    IF new_enable THEN "upd_kstart"
    ELSE IF old_enable THEN "stop_begin"
    ELSE "returning"

\* Lines 561-597: the branch on (old['enable'], new['enable']).
Dispatch(old_enable, new_enable) ==
    IF ~old_enable /\ new_enable THEN "upd_kstart"
    ELSE IF ~new_enable /\ old_enable THEN "stop_begin"
    ELSE IF new_enable /\ old_enable THEN "upd_restart"
    ELSE "returning"

\* config = ad_compress(new); datastore.update(...); then the dispatch on
\* (old['enable'], new['enable']).
UpdPersist(j) ==
    /\ At(j, "upd_persist")
    /\ LET new == [k \in (DOMAIN job[j].ad) \cup {"bindpw"} |->
                       IF k = "bindpw" THEN job[j].data.bindpw ELSE job[j].ad[k]]
       IN config' = ad_compress(new)
    /\ job' = [job EXCEPT ![j].pc = Dispatch(job[j].old_enable, job[j].ad.enable)]
    /\ UNCHANGED <<ds_state, workgroup, realms, keytab, dc, lock, netbiosname, gate, appvars>>

\* Lines 562-580: the network domain, then kerberos.start when there is
\* no ticket; it is outside the try block.
UpdKerberosStart(j) ==
    /\ At(j, "upd_kstart")
    /\ \E ok \in BOOLEAN :
        job' = [job EXCEPT ![j] = IF ok THEN Goto(@, "st_begin")
                                  ELSE Raised(@, "kerberos_start", "raising")]
    /\ UNCHANGED <<ds_state, config, workgroup, realms, keytab, dc, lock, netbiosname, gate, appvars>>

\* enabled before and after: service.restart('idmap')
UpdRestart(j) ==
    /\ At(j, "upd_restart")
    /\ job' = [job EXCEPT ![j] = Goto(Logged(@, "restart_idmap"), "returning")]
    /\ UNCHANGED <<ds_state, config, workgroup, realms, keytab, dc, lock, netbiosname, gate, appvars>>

\* The handler that keeps the state the start sequence left.
FailedStartState_keep(s) == s

\* The state the handler of a failed start sets.
FailedStartState(s) == DSStatusName(DSStatus("DISABLED"))

\* A handler that leaves the row enabled.
DisabledRow_keep(row) == row

\* Lines 587-590: datastore.update(..., {'enable': False})
DisabledRow(row) == [row EXCEPT !.enable = FALSE]

\* except Exception as e: set_state(DISABLED); enable = False; raise e
UpdExcept(j) ==
    /\ At(j, "upd_except")
    /\ ds_state' = FailedStartState(ds_state)
    /\ config' = DisabledRow(config)
    /\ job' = [job EXCEPT ![j] = Goto(Logged(@, "disabled"), "raising")]
    /\ UNCHANGED <<workgroup, realms, keytab, dc, lock, netbiosname, gate, appvars>>


----------------------------------------------------------------------------
\* __start

\* What lookup_dc reports
DcSites == {"Default-First-Site-Name", "SiteA"}
DcWorkgroup == "EXAMPLE"

\* Lines 685-706: read the configuration, the HA check, the state guard,
\* lookup_dc, then state JOINING and enable = True.
StartBegin(j) ==
    /\ At(j, "st_begin")
    /\ \E standby \in BOOLEAN, found \in BOOLEAN :
        LET r == [job[j] EXCEPT !.ad = config] IN
        IF standby
            THEN /\ job' = [job EXCEPT ![j] = Goto(r, "returning")]
                 /\ UNCHANGED <<ds_state, config>>
        ELSE IF get_state \in {DSStatus("JOINING"), DSStatus("LEAVING")}
            THEN /\ job' = [job EXCEPT ![j] = Raised(r, "EBUSY", "upd_except")]
                 /\ UNCHANGED <<ds_state, config>>
        ELSE IF ~found
            THEN /\ job' = [job EXCEPT ![j] = Raised(r, "lookup_dc", "upd_except")]
                 /\ UNCHANGED <<ds_state, config>>
        ELSE /\ ds_state' = DSStatusName(DSStatus("JOINING"))
             /\ config' = [config EXCEPT !.enable = TRUE]
             /\ job' = [job EXCEPT ![j] = Goto(set_progress(Logged(r, "state:JOINING"), 0), "st_realm")]
    /\ UNCHANGED <<workgroup, realms, keytab, dc, lock, netbiosname, gate, appvars>>

\* Lines 712-730: find or insert the realm row and store its id.
StartRealm(j) ==
    /\ At(j, "st_realm")
    /\ \E ok \in BOOLEAN :
        IF job[j].ad.kerberos_realm # 0
            THEN /\ job' = [job EXCEPT ![j] = Goto(set_progress(@, 5), "st_ticket")]
                 /\ UNCHANGED <<realms, config>>
        ELSE IF ~ok
            THEN /\ job' = [job EXCEPT ![j] = Raised(set_progress(@, 5), "realm", "upd_except")]
                 /\ UNCHANGED <<realms, config>>
        ELSE /\ realms' = realms \cup {RealmId}
             /\ config' = [config EXCEPT !.kerberos_realm = RealmId]
             /\ job' = [job EXCEPT ![j] = Goto(set_progress([@ EXCEPT !.ad = config'], 5), "st_ticket")]
    /\ UNCHANGED <<ds_state, workgroup, keytab, dc, lock, netbiosname, gate, appvars>>

\* Lines 732-737: kerberos.start when there is no ticket.
StartTicket(j) ==
    /\ At(j, "st_ticket")
    /\ \E ok \in BOOLEAN :
        job' = [job EXCEPT ![j] = IF ok THEN Goto(@, "st_site")
                                  ELSE Raised(@, "kerberos_start", "upd_except")]
    /\ UNCHANGED <<ds_state, config, workgroup, realms, keytab, dc, lock, netbiosname, gate, appvars>>

\* A detection that overrides the configured site.
DetectSite_always(configured, detected) == detected

\* Lines 747-748: if not ad['site']: ad['site'] = dc_info['Client Site Name']
DetectSite(configured, detected) ==
    IF configured = "" THEN detected ELSE configured

\* Lines 746-750: take the site of the lookup when none is configured;
\* set_kerberos_servers is called for a detected site other than the
\* default one.
StartSite(j) ==
    /\ At(j, "st_site")
    /\ \E site \in DcSites, ok \in BOOLEAN :
        LET r == set_progress(job[j], 20)
            ad == [r.ad EXCEPT !.site = DetectSite(r.ad.site, site)]
        IN
        job' = [job EXCEPT ![j] =
            IF r.ad.site = "" /\ site # "Default-First-Site-Name" /\ ~ok
                THEN Raised([r EXCEPT !.ad = ad], "set_kerberos_servers", "upd_except")
                ELSE Goto([r EXCEPT !.ad = ad], "st_workgroup")]
    /\ UNCHANGED <<ds_state, config, workgroup, realms, keytab, dc, lock, netbiosname, gate, appvars>>

\* Lines 752-761: make the SMB workgroup the one of the domain.
StartWorkgroup(j) ==
    /\ At(j, "st_workgroup")
    /\ \E ok \in BOOLEAN :
        IF workgroup # DcWorkgroup /\ ~ok
            THEN /\ job' = [job EXCEPT ![j] = Raised(set_progress(@, 30), "workgroup", "upd_except")]
                 /\ UNCHANGED workgroup
            ELSE /\ workgroup' = DcWorkgroup
                 /\ job' = [job EXCEPT ![j] = Goto(set_progress(@, 30), "st_testjoin")]
    /\ UNCHANGED <<ds_state, config, realms, keytab, dc, lock, netbiosname, gate, appvars>>

\* _net_ads_testjoin up to the end of the command (lines 983-996):
\* check_ticket raises without a ticket; the command exits 0 only when
\* the domain controller holds the computer account.
StartTestjoin(j) ==
    /\ At(j, "st_testjoin")
    /\ \/ job' = [job EXCEPT ![j] = Raised(set_progress(@, 40), "check_ticket", "upd_except")]
       \/ \E netads \in NetadsRuns :
            /\ netads.returncode = 0 => dc.account
            /\ job' = [job EXCEPT ![j] = Goto(Logged(set_progress([@ EXCEPT !.netads = netads], 40), "testjoin"), "st_classify")]
    /\ UNCHANGED <<ds_state, config, workgroup, realms, keytab, dc, lock, netbiosname, gate, appvars>>

\* A dispatch that also joins after an unrecognised failure.
AfterProbe_joinOnFault(ret) ==
    IF ret = "JOINED" THEN "st_already" ELSE "st_join"

\* The branch of lines 773 and 833 on the probe's result.
AfterProbe(ret) ==
    IF ret = "NOTJOINED" THEN "st_join"
    ELSE IF ret = "JOINED" THEN "st_already"
    ELSE "st_generate"

\* Lines 997-1004, then the branch: classify the probe.
StartClassify(j) ==
    /\ At(j, "st_classify")
    /\ LET ret == TestjoinResult(job[j].netads) IN
        job' = [job EXCEPT ![j] =
            Goto(Logged([@ EXCEPT !.ret = ret, !.netads = NoRun], "probe:" \o ret),
                 AfterProbe(ret))]
    /\ UNCHANGED <<ds_state, config, workgroup, realms, keytab, dc, lock, netbiosname, gate, appvars>>

\* _net_ads_join (lines 949-969): a non-zero exit sets FAULTED and raises.
StartJoin(j) ==
    /\ At(j, "st_join")
    /\ \E out \in {"no_ticket", "nonzero", "zero"} :
        CASE out = "no_ticket" ->
                /\ job' = [job EXCEPT ![j] = Raised(set_progress(@, 50), "check_ticket", "upd_except")]
                /\ UNCHANGED <<ds_state, dc>>
          [] out = "nonzero" ->
                /\ ds_state' = DSStatusName(DSStatus("FAULTED"))
                /\ job' = [job EXCEPT ![j] = Raised(Logged(set_progress(@, 50), "join"), "join", "upd_except")]
                /\ UNCHANGED dc
          [] out = "zero" ->
                /\ dc' = [dc EXCEPT !.account = TRUE]
                /\ job' = [job EXCEPT ![j] = Goto(Logged(Logged(set_progress(@, 50), "join"), "joined"), "pjs_dns")]
                /\ UNCHANGED ds_state
    /\ UNCHANGED <<config, workgroup, realms, keytab, lock, netbiosname, gate, appvars>>

\* post_join_setup called with no try around it.
PostJoinHandler_none == "upd_except"

\* Where an exception of post_join_setup lands: the handler of line 784.
PostJoinHandler == "pjs_except"

\* A post_join_setup that stores the keytab without the SPN job.
PostJoinNext_skipSpn(step) ==
    CASE step = "pjs_dns" -> "pjs_keytab"
      [] step = "pjs_spn" -> "pjs_keytab"
      [] step = "pjs_keytab" -> "st_commit"

\* post_join_setup, lines 665-678: the statement that follows each call.
PostJoinNext(step) ==
    CASE step = "pjs_dns" -> "pjs_spn"
      [] step = "pjs_spn" -> "pjs_keytab"
      [] step = "pjs_keytab" -> "st_commit"

\* post_join_setup, line 665: activedirectory.register_dns
PostJoinDns(j) ==
    /\ At(j, "pjs_dns")
    /\ \E ok \in BOOLEAN :
        IF ok THEN /\ dc' = [dc EXCEPT !.dns = TRUE]
                   /\ job' = [job EXCEPT ![j] = Goto(Logged(@, "register_dns"), PostJoinNext("pjs_dns"))]
              ELSE /\ job' = [job EXCEPT ![j] = Raised(@, "register_dns", PostJoinHandler)]
                   /\ UNCHANGED dc
    /\ UNCHANGED <<ds_state, config, workgroup, realms, keytab, lock, netbiosname, gate, appvars>>

\* post_join_setup, lines 672-675: the add_nfs_spn job and the wait for it
PostJoinSpn(j) ==
    /\ At(j, "pjs_spn")
    /\ \E ok \in BOOLEAN :
        LET r == set_progress(job[j], 60) IN
        job' = [job EXCEPT ![j] = IF ok THEN Goto(Logged(r, "add_nfs_spn"), PostJoinNext("pjs_spn"))
                                  ELSE Raised(r, "add_nfs_spn", PostJoinHandler)]
    /\ UNCHANGED <<ds_state, config, workgroup, realms, keytab, dc, lock, netbiosname, gate, appvars>>

\* post_join_setup, lines 677-678: kerberos.keytab.store_ad_keytab
PostJoinKeytab(j) ==
    /\ At(j, "pjs_keytab")
    /\ \E ok \in BOOLEAN :
        IF ok THEN /\ keytab' = TRUE
                   /\ job' = [job EXCEPT ![j] = Goto(Logged(set_progress(@, 70), "store_ad_keytab"), PostJoinNext("pjs_keytab"))]
              ELSE /\ job' = [job EXCEPT ![j] = Raised(set_progress(@, 70), "store_ad_keytab", PostJoinHandler)]
                   /\ UNCHANGED keytab
    /\ UNCHANGED <<ds_state, config, workgroup, realms, dc, lock, netbiosname, gate, appvars>>

\* Lines 784-788 with _net_ads_leave (lines 1007-1023): check_ticket may
\* raise inside the handler; a non-zero exit is logged; then `raise`.
PostJoinExcept(j) ==
    /\ At(j, "pjs_except")
    /\ \E out \in {"no_ticket", "nonzero", "zero"} :
        LET r == Logged(job[j], "leave_invoked") IN
        CASE out = "no_ticket" ->
                /\ job' = [job EXCEPT ![j] = Raised(r, "check_ticket", "upd_except")]
                /\ UNCHANGED dc
          [] out = "nonzero" ->
                /\ job' = [job EXCEPT ![j] = Goto(Logged(r, "leave"), "upd_except")]
                /\ UNCHANGED dc
          [] out = "zero" ->
                /\ dc' = [dc EXCEPT !.account = FALSE]
                /\ job' = [job EXCEPT ![j] = Goto(Logged(r, "leave"), "upd_except")]
    /\ UNCHANGED <<ds_state, config, workgroup, realms, keytab, lock, netbiosname, gate, appvars>>


\* Lines 790-794: store the machine account as kerberos_principal.
StartCommit(j) ==
    /\ At(j, "st_commit")
    /\ config' = [config EXCEPT !.kerberos_principal = MachineAcct(job[j].ad)]
    /\ job' = [job EXCEPT ![j] = Goto(Logged([@ EXCEPT !.ad = config'], "commit_principal"), "st_kinit")]
    /\ UNCHANGED <<ds_state, workgroup, realms, keytab, dc, lock, netbiosname, gate, appvars>>

\* Lines 796-825: domain_info, kdestroy, kinit as the machine account.
StartKinit(j) ==
    /\ At(j, "st_kinit")
    /\ \E out \in {"domain_info", "do_kinit", "ok"} :
        LET r == set_progress(job[j], 75) IN
        job' = [job EXCEPT ![j] = IF out = "ok" THEN Goto(Logged(r, "kinit"), "st_subsys")
                                  ELSE Raised(r, out, "upd_except")]
    /\ UNCHANGED <<ds_state, config, workgroup, realms, keytab, dc, lock, netbiosname, gate, appvars>>

\* Lines 827-832: cifs, set_idmap, set_ntp_servers, secrets.backup.
\* set_idmap has no handler around it; set_ntp_servers (lines 1077-1105)
\* catches the failure of the lookup and of ntpserver.create and logs it.
StartSubsystems(j) ==
    /\ At(j, "st_subsys")
    /\ \E out \in {"set_idmap", "secrets_backup", "ok"}, ntp_ok \in BOOLEAN :
        LET p == set_progress(job[j], 80) IN
        job' = [job EXCEPT ![j] =
            IF out = "set_idmap" THEN Raised(p, out, "upd_except")
            ELSE LET r == IF ntp_ok THEN p ELSE Logged(p, "warn:set_ntp_servers") IN
                 IF out = "ok"
                    THEN Goto(Logged([r EXCEPT !.ret = "JOINED"], "secrets_backup"), "st_generate")
                    ELSE Raised(r, out, "upd_except")]
    /\ UNCHANGED <<ds_state, config, workgroup, realms, keytab, dc, lock, netbiosname, gate, appvars>>

\* A start that stores the principal at every start of a joined machine.
NeedsPrincipal_always(ad) == TRUE

\* Line 836: if not ad['kerberos_principal']
NeedsPrincipal(ad) == ad.kerberos_principal = ""

\* Lines 833-843: already joined; recover the keytab and store the
\* principal when the row has none.
StartAlready(j) ==
    /\ At(j, "st_already")
    /\ \E ok \in BOOLEAN :
        IF ~NeedsPrincipal(job[j].ad)
            THEN /\ job' = [job EXCEPT ![j] = Goto(@, "st_generate")]
                 /\ UNCHANGED <<keytab, config>>
        ELSE IF ~keytab /\ ~ok
            THEN /\ job' = [job EXCEPT ![j] = Raised(@, "check_machine_account_keytab", "upd_except")]
                 /\ UNCHANGED <<keytab, config>>
        ELSE /\ keytab' = TRUE
             /\ config' = [config EXCEPT !.kerberos_principal = MachineAcct(job[j].ad)]
             /\ job' = [job EXCEPT ![j] = Goto(Logged(@, "commit_principal"), "st_generate")]
    /\ UNCHANGED <<ds_state, workgroup, realms, dc, lock, netbiosname, gate, appvars>>

\* Lines 845-848: regenerate smb, pam, nss and restart idmap.
StartGenerate(j) ==
    /\ At(j, "st_generate")
    /\ \E ok \in BOOLEAN :
        job' = [job EXCEPT ![j] = IF ok THEN Goto(@, "st_final")
                                  ELSE Raised(@, "etc_generate", "upd_except")]
    /\ UNCHANGED <<ds_state, config, workgroup, realms, keytab, dc, lock, netbiosname, gate, appvars>>

\* A final state that does not look at the classification.
FinalState_always(ret) == DSStatusName(DSStatus("HEALTHY"))

\* Lines 849-860: the state the start sequence ends in.
FinalState(ret) ==
    IF ret = "JOINED" THEN DSStatusName(DSStatus("HEALTHY"))
    ELSE DSStatusName(DSStatus("FAULTED"))

\* Lines 849-863: set the final state; when JOINED the cache refresh and
\* the restart of dependent services follow and may raise.
StartFinal(j) ==
    /\ At(j, "st_final")
    /\ ds_state' = FinalState(job[j].ret)
    /\ \E ok \in BOOLEAN :
        LET r == Logged(job[j], "state:" \o ds_state')
            p == IF job[j].ret = "JOINED" THEN set_progress(r, 90) ELSE r
        IN
        job' = [job EXCEPT ![j] =
            IF job[j].ret = "JOINED" /\ ~ok
                THEN Raised(p, "restart_dependent_services", "upd_except")
                ELSE Goto(set_progress(p, 100), "st_priv")]
    /\ UNCHANGED <<config, workgroup, realms, keytab, dc, lock, netbiosname, gate, appvars>>

\* An add_privileges whose exception is not caught.
AfterPrivileges_raise(ok) == IF ok THEN "st_return" ELSE "upd_except"

\* Lines 867-870: try / except Exception: the next line is reached after a
\* failure as after a success.
AfterPrivileges(ok) == "st_return"

\* Lines 865-872: add_privileges inside try/except, then return ret.name.
StartPrivileges(j) ==
    /\ At(j, "st_priv")
    /\ \E ok \in BOOLEAN :
        job' = [job EXCEPT ![j] =
            IF job[j].ret = "JOINED"
                THEN Goto(Logged(set_progress(@, 100),
                                 IF ok THEN "add_privileges" ELSE "warn:add_privileges"),
                          AfterPrivileges(ok))
                ELSE Goto(@, "st_return")]
    /\ UNCHANGED <<ds_state, config, workgroup, realms, keytab, dc, lock, netbiosname, gate, appvars>>

\* __start has returned ret.name to do_update, which returns the config.
StartReturn(j) ==
    /\ At(j, "st_return")
    /\ job' = [job EXCEPT ![j] = Goto(Logged(@, "return:" \o job[j].ret), "returning")]
    /\ UNCHANGED <<ds_state, config, workgroup, realms, keytab, dc, lock, netbiosname, gate, appvars>>

----------------------------------------------------------------------------
\* __stop

\* A stop that clears the row as a leave does.
StoppedRow_asLeave(row) ==
    [row EXCEPT !.enable = FALSE, !.site = "", !.bindname = "",
                !.kerberos_realm = 0, !.kerberos_principal = "", !.domainname = ""]

\* A stop that also forgets the principal.
StoppedRow_clearPrincipal(row) == [row EXCEPT !.enable = FALSE, !.kerberos_principal = ""]

\* Lines 876-879: the only field __stop writes is enable.
StoppedRow(row) == [row EXCEPT !.enable = FALSE]

\* Lines 875-881: enable = False, state LEAVING.
StopBegin(j) ==
    /\ At(j, "stop_begin")
    /\ config' = StoppedRow(config)
    /\ ds_state' = DSStatusName(DSStatus("LEAVING"))
    /\ job' = [job EXCEPT ![j] = Goto(set_progress(Logged(set_progress(@, 0), "state:LEAVING"), 5), "stop_services")]
    /\ UNCHANGED <<workgroup, realms, keytab, dc, lock, netbiosname, gate, appvars>>

\* A stop whose reports fall back before the end.
StopReports_dip == <<10, 20, 40, 30, 60>>

\* Lines 884, 886, 889, 893, 897: the percentages __stop reports from the
\* stop of kerberos on.
StopReports == <<10, 20, 40, 60, 100>>

\* Lines 883-897: stop kerberos and cifs, regenerate, state DISABLED.
StopServices(j) ==
    /\ At(j, "stop_services")
    /\ \E ok \in BOOLEAN :
        LET p10 == set_progress(job[j], StopReports[1])
            p40 == set_progress(set_progress(p10, StopReports[2]), StopReports[3])
            p60 == set_progress(Logged(p40, "state:DISABLED"), StopReports[4])
        IN
        IF ok THEN /\ ds_state' = DSStatusName(DSStatus("DISABLED"))
                   /\ job' = [job EXCEPT ![j] = Goto(set_progress(p60, StopReports[5]), "returning")]
              ELSE /\ job' = [job EXCEPT ![j] = Raised(p10, "kerberos_stop", "raising")]
                   /\ UNCHANGED ds_state
    /\ UNCHANGED <<config, workgroup, realms, keytab, dc, lock, netbiosname, gate, appvars>>


----------------------------------------------------------------------------
\* leave

\* A leave that does not look at the domain name.
DomainConfigured_always(ad) == TRUE

\* Line 1142: ad['domainname'] is not empty
DomainConfigured(ad) == ad.domainname # ""

\* Lines 1141-1162: no domain name configured is an error; then
\* remove_privileges inside try/except.
LeaveBegin(j) ==
    /\ At(j, "lv_begin")
    /\ \E ok \in BOOLEAN :
        LET r == [job[j] EXCEPT !.ad = [config EXCEPT !.bindname = "admin", !.kerberos_principal = ""]] IN
        job' = [job EXCEPT ![j] =
            IF ~DomainConfigured(config) THEN Raised(r, "no_domainname", "raising")
            ELSE Goto(Logged(r, IF ok THEN "remove_privileges" ELSE "warn:remove_privileges"), "lv_kinit")]
    /\ UNCHANGED <<ds_state, config, workgroup, realms, keytab, dc, lock, netbiosname, gate, appvars>>

\* A leave that goes on without a ticket.
AfterLeaveKinit_goOn(ok) == "lv_leave"

\* Lines 1165-1168: kerberos.do_kinit is awaited with no handler, so the
\* leave command is reached only when it returned.
AfterLeaveKinit(ok) == IF ok THEN "lv_leave" ELSE "raising"

\* Lines 1164-1166: a ticket for the supplied user.
LeaveKinit(j) ==
    /\ At(j, "lv_kinit")
    /\ \E ok \in BOOLEAN :
        LET r == set_progress(job[j], 5) IN
        job' = [job EXCEPT ![j] = IF ok THEN Goto(Logged(r, "kinit"), AfterLeaveKinit(ok))
                                  ELSE Raised(r, "do_kinit", AfterLeaveKinit(ok))]
    /\ UNCHANGED <<ds_state, config, workgroup, realms, keytab, dc, lock, netbiosname, gate, appvars>>

\* A leave whose result is always reported as success.
LeftSuccessfully_always(returncode) == TRUE

\* Lines 1018-1023: what _net_ads_leave returns for an exit status.
LeftSuccessfully(returncode) == returncode = 0

\* Lines 1168-1169 with _net_ads_leave: the leave command.
LeaveLeave(j) ==
    /\ At(j, "lv_leave")
    /\ \E out \in {"no_ticket", "nonzero", "zero"} :
        LET r == set_progress(job[j], 10) IN
        CASE out = "no_ticket" ->
                /\ job' = [job EXCEPT ![j] = Raised(Logged(r, "leave_invoked"), "check_ticket", "raising")]
                /\ UNCHANGED dc
          [] out = "nonzero" ->
                /\ job' = [job EXCEPT ![j] =
                        Goto(Logged(Logged([r EXCEPT !.left = LeftSuccessfully(1)], "leave_invoked"), "leave:nonzero"), "lv_dns")]
                /\ UNCHANGED dc
          [] out = "zero" ->
                /\ dc' = [dc EXCEPT !.account = FALSE]
                /\ job' = [job EXCEPT ![j] =
                        Goto(Logged(Logged([r EXCEPT !.left = LeftSuccessfully(0)], "leave_invoked"), "leave:zero"), "lv_dns")]
    /\ UNCHANGED <<ds_state, config, workgroup, realms, keytab, lock, netbiosname, gate, appvars>>

\* Lines 1171-1172: activedirectory.unregister_dns
LeaveDns(j) ==
    /\ At(j, "lv_dns")
    /\ \E ok \in BOOLEAN :
        LET r == set_progress(job[j], 15) IN
        IF ok THEN /\ dc' = [dc EXCEPT !.dns = FALSE]
                   /\ job' = [job EXCEPT ![j] = Goto(Logged(r, "unregister_dns"), "lv_records")]
              ELSE /\ job' = [job EXCEPT ![j] = Raised(r, "unregister_dns", "raising")]
                   /\ UNCHANGED dc
    /\ UNCHANGED <<ds_state, config, workgroup, realms, keytab, lock, netbiosname, gate, appvars>>

\* Lines 1174-1196: delete the keytab row and the realm row, then the
\* secrets backup (inside try/except) when the leave succeeded.
LeaveRecords(j) ==
    /\ At(j, "lv_records")
    /\ keytab' = FALSE
    /\ realms' = IF job[j].ad.kerberos_realm # 0 THEN realms \ {job[j].ad.kerberos_realm} ELSE realms
    /\ \E ok \in BOOLEAN :
        job' = [job EXCEPT ![j] =
            LET r == Logged(Logged(set_progress(@, 20), "delete_keytab"), "delete_realm") IN
            IF job[j].left
                THEN Goto(Logged(r, IF ok THEN "secrets_backup" ELSE "warn:secrets_backup"), "lv_clear")
                ELSE Goto(r, "lv_clear")]
    /\ UNCHANGED <<ds_state, config, workgroup, dc, lock, netbiosname, gate, appvars>>

\* A clearing write that leaves the domain name and the principal.
ClearedRow_keepDomain(row) ==
    [row EXCEPT !.enable = FALSE, !.site = "", !.bindname = "", !.kerberos_realm = 0]

\* Lines 1199-1206: the payload of the clearing write.
ClearedRow(row) ==
    [row EXCEPT !.enable = FALSE, !.site = "", !.bindname = "",
                !.kerberos_realm = 0, !.kerberos_principal = "", !.domainname = ""]

\* Lines 1198-1211: clear the row, state DISABLED.
LeaveClear(j) ==
    /\ At(j, "lv_clear")
    /\ config' = ClearedRow(config)
    /\ ds_state' = DSStatusName(DSStatus("DISABLED"))
    /\ job' = [job EXCEPT ![j] = Goto(Logged(set_progress(@, 30), "state:DISABLED"), "lv_tail")]
    /\ UNCHANGED <<workgroup, realms, keytab, dc, lock, netbiosname, gate, appvars>>

\* Lines 1213-1234: flush, kerberos.stop, regenerate, restart.
LeaveTail(j) ==
    /\ At(j, "lv_tail")
    /\ \E ok \in BOOLEAN :
        LET p50 == set_progress(set_progress(job[j], 40), 50)
            p60 == set_progress(set_progress(p50, 60), 60)
        IN
        job' = [job EXCEPT ![j] = IF ok THEN Goto(set_progress(p60, 100), "returning")
                                  ELSE Raised(p50, "kerberos_stop", "raising")]
    /\ UNCHANGED <<ds_state, config, workgroup, realms, keytab, dc, lock, netbiosname, gate, appvars>>

----------------------------------------------------------------------------
Next ==
    \E j \in Jobs :
        \/ Submit(j) \/ Acquire(j) \/ JobEnd(j)
        \/ UpdValidate(j) \/ UpdPersist(j) \/ UpdKerberosStart(j) \/ UpdRestart(j) \/ UpdExcept(j)
        \/ StartBegin(j) \/ StartRealm(j) \/ StartTicket(j) \/ StartSite(j) \/ StartWorkgroup(j)
        \/ StartTestjoin(j) \/ StartClassify(j) \/ StartJoin(j)
        \/ PostJoinDns(j) \/ PostJoinSpn(j) \/ PostJoinKeytab(j) \/ PostJoinExcept(j)
        \/ StartCommit(j) \/ StartKinit(j) \/ StartSubsystems(j) \/ StartAlready(j)
        \/ StartGenerate(j) \/ StartFinal(j) \/ StartPrivileges(j) \/ StartReturn(j)
        \/ StopBegin(j) \/ StopServices(j)
        \/ LeaveBegin(j) \/ LeaveKinit(j) \/ LeaveLeave(j) \/ LeaveDns(j) \/ LeaveRecords(j)
        \/ LeaveClear(j) \/ LeaveTail(j)

Spec == Init /\ [][Next]_vars


----------------------------------------------------------------------------
\* The validation of do_update on its own: one pass over a proposed row,
\* a stored row and the collaborators' facts, all drawn at the start.

\* Longest list of resolved addresses
MaxAddrs == 3

\* 127.0.0.1, 224.0.0.1, 203.0.113.5, 240.0.0.1, 169.254.1.1 and ::1
AddressPool ==
    <<IPv4(127, 0, 0, 1), IPv4(224, 0, 0, 1), IPv4(203, 0, 113, 5),
      IPv4(240, 0, 0, 1), IPv4(169, 254, 1, 1), IPv6(0, 1)>>

\* The addresses of the pool at the places S, in the pool's order.
AddressList(S) ==
    LET At2(i) == i \in S
        places == SelectSeq([i \in 1..Len(AddressPool) |-> i], At2)
    IN [k \in 1..Len(places) |-> AddressPool[places[k]]]

\* What get_ipaddresses may return
AddressLists ==
    {AddressList(S) : S \in {T \in SUBSET (1..Len(AddressPool)) : Cardinality(T) <= MaxAddrs}}

\* new, after new.update(data)
GateNews ==
    [enable : BOOLEAN, kerberos_realm : {0, RealmId, RealmId + 1},
     kerberos_principal : {"", "NAS$@EXAMPLE.COM"}, bindpw : {"", "secret"},
     domainname : {"EXAMPLE.COM"}, allow_dns_updates : BOOLEAN]

\* old = await self.config()
GateOlds == [enable : BOOLEAN, kerberos_realm : {0, RealmId}]

\* The collaborators' answers; addresses are resolved only when line 232
\* is reached.
GateFacts(new) ==
    {f \in [netbiosname_is_ours : BOOLEAN, realms : {{}, {RealmId}}, pool : BOOLEAN,
            ldap_enabled : BOOLEAN, standby : BOOLEAN, addresses : AddressLists] :
        (~new.enable \/ ~new.allow_dns_updates \/ f.standby) => f.addresses = <<>>}

\* How far around the limit the clock offsets of the probe go.
OffsetSpread == 1

\* 'Server time offset' of `net ads info`: none, and the values around
\* three minutes either way.
Offsets ==
    {0} \cup {sign * (180 + d) : sign \in {-1, 1}, d \in (0 - OffsetSpread)..OffsetSpread}

\* 'KDC server' of `net ads info`
KdcServers == {"10.0.0.1", "10.0.0.2"}

\* No command has answered yet.
NoAnswer == [returncode |-> 0, stderr |-> "", offset |-> 0, kdc |-> ""]

\* What one run of `net ads info` may give: the JSON of an exit status 0,
\* or an error text with another status.
RunResults ==
    [returncode : {0}, stderr : {""}, offset : Offsets, kdc : KdcServers]
    \cup [returncode : {1}, stderr : {"Didn't find the ldap server!", "timeout"},
          offset : {0}, kdc : {""}]

\* The start sequence has not yet asked for the machine account's ticket.
NoMachine == [calls |-> <<>>, kdc |-> ""]

InitGate ==
    /\ InitSystem
    /\ \E new \in GateNews, old \in GateOlds :
        \E facts \in GateFacts(new) :
            gate = [pc |-> "common_validate", new |-> new, old |-> old, facts |-> facts,
                    verrors |-> <<>>, by |-> "", code |-> "",
                    retry |-> TRUE, runs |-> <<>>, flushes |-> 0, rv |-> NoAnswer,
                    kdc |-> "", validated |-> FALSE, ticket |-> FALSE, kinits |-> <<>>,
                    machine |-> NoMachine]

\* line 379: await self.common_validate(new, old, verrors)
GateCommonValidate ==
    /\ gate.pc = "common_validate"
    /\ gate' = [gate EXCEPT !.verrors = common_validate(gate.new, gate.old, gate.facts),
                            !.pc = "check"]
    /\ UNCHANGED <<ds_state, config, workgroup, realms, keytab, dc, lock, job, netbiosname, appvars>>

\* line 381: verrors.check() raises the whole report when it is not empty
GateCheck ==
    /\ gate.pc = "check"
    /\ gate' = IF gate.verrors # <<>>
                THEN [gate EXCEPT !.pc = "rejected", !.by = "ValidationErrors"]
                ELSE [gate EXCEPT !.pc = "preflight"]
    /\ UNCHANGED <<ds_state, config, workgroup, realms, keytab, dc, lock, job, netbiosname, appvars>>

\* Lines 383-423 and 549-555: the checks that raise one ValidationError
\* before the domain is probed: trusted domains and boot pool when
\* enabling, a changed key while enabled, a password without enable.  An
\* update that enables the service goes on to domain_info (line 436),
\* which calls cache_flush_retry(cmd) with retry at its default.
GatePreflight ==
    /\ gate.pc = "preflight"
    /\ \E ok \in BOOLEAN :
        gate' =
            IF gate.new.enable /\ gate.old.enable /\ RealmChanged(gate.new, gate.old)
                THEN [gate EXCEPT !.pc = "rejected", !.by = "ValidationError",
                                  !.verrors = << <<"activedirectory.kerberos_realm", "changed", 0>> >>]
            ELSE IF gate.new.enable /\ gate.old.enable THEN [gate EXCEPT !.pc = "accepted"]
            ELSE IF gate.new.enable /\ ~ok
                THEN [gate EXCEPT !.pc = "rejected", !.by = "ValidationError",
                                  !.verrors = << <<"activedirectory.enable", "boot pool", 0>> >>]
            ELSE IF gate.new.enable THEN [gate EXCEPT !.pc = "run", !.retry = TRUE]
            ELSE IF gate.new.bindpw # ""
                THEN [gate EXCEPT !.pc = "rejected", !.by = "ValidationError",
                                  !.verrors = << <<"activedirectory.bindpw", "not enabling", 0>> >>]
            ELSE [gate EXCEPT !.pc = "accepted"]
    /\ UNCHANGED <<ds_state, config, workgroup, realms, keytab, dc, lock, job, netbiosname, appvars>>

\* A helper that gives up after the first run.
RetryAgain_never(rv, retry) == FALSE

\* Line 1110: rv.returncode != 0 and retry
RetryAgain(rv, retry) == rv.returncode # 0 /\ retry

\* cache_flush_retry, lines 1108-1110 and 1114: run the command; a failure
\* with retry set goes to the flush, anything else is returned.
GateRun ==
    /\ gate.pc = "run"
    /\ \E rv \in RunResults :
        gate' = IF RetryAgain(rv, gate.retry)
                    THEN [gate EXCEPT !.runs = Append(@, rv), !.pc = "flush"]
                    ELSE [gate EXCEPT !.runs = Append(@, rv), !.rv = rv, !.pc = "info"]
    /\ UNCHANGED <<ds_state, config, workgroup, realms, keytab, dc, lock, job, netbiosname, appvars>>

\* cache_flush_retry, lines 1111-1112: idmap.gencache.flush, then the
\* helper calls itself with retry False.  A flush that raises leaves the
\* helper and domain_info; do_update reports it under the realm name
\* (lines 437-438).
GateFlush ==
    /\ gate.pc = "flush"
    /\ \E ok \in BOOLEAN :
        gate' = IF ok THEN [gate EXCEPT !.flushes = @ + 1, !.retry = FALSE, !.pc = "run"]
                ELSE [gate EXCEPT !.flushes = @ + 1, !.pc = "rejected", !.by = "ValidationError",
                                  !.verrors = << <<"activedirectory.domainname", "flush", 0>> >>]
    /\ UNCHANGED <<ds_state, config, workgroup, realms, keytab, dc, lock, job, netbiosname, appvars>>

\* An offset check that refuses three minutes as well.
OffsetTooLarge_inclusive(offset) == (IF offset < 0 THEN 0 - offset ELSE offset) >= 180

\* Line 440: abs(domain_info['Server time offset']) > 180
OffsetTooLarge(offset) == (IF offset < 0 THEN 0 - offset ELSE offset) > 180

\* domain_info from the answer of the helper on (lines 1063-1074), then
\* lines 437-458 of do_update: a failed command, an offset beyond the
\* limit and a failed check of the nameservers each raise one
\* ValidationError under the realm name.
GateDomainInfo ==
    /\ gate.pc = "info"
    /\ \E nameservers_ok \in BOOLEAN :
        LET done == [gate EXCEPT !.runs = <<>>, !.rv = NoAnswer, !.flushes = 0]
            Refused(why) == [gate EXCEPT !.pc = "rejected", !.by = "ValidationError",
                                         !.verrors = << <<"activedirectory.domainname", why, 0>> >>]
        IN gate' =
            IF gate.rv.returncode # 0 THEN Refused("domain_info")
            ELSE IF OffsetTooLarge(gate.rv.offset) THEN Refused("time offset")
            ELSE IF ~nameservers_ok THEN Refused("nameservers")
            ELSE [done EXCEPT !.kdc = gate.rv.kdc, !.pc = "credentials"]
    /\ UNCHANGED <<ds_state, config, workgroup, realms, keytab, dc, lock, job, netbiosname, appvars>>

\* A validation that asks for a ticket although one is held.
validate_credentials_noShortCircuit(ticket, kdc, krb5_code) ==
    [kinits |-> <<kdc>>, krb5_code |-> krb5_code]

\* validate_credentials (lines 900-928): nothing is requested when
\* kerberos.check_ticket finds a ticket; otherwise one kinit with the
\* KDC as kdc_override, whose KRB5Error is not caught here.
validate_credentials(ticket, kdc, krb5_code) ==
    IF ticket THEN [kinits |-> <<>>, krb5_code |-> ""]
    ELSE [kinits |-> <<kdc>>, krb5_code |-> krb5_code]

\* Lines 460-536: validate_credentials(new, domain_info['KDC server']); a
\* KRB5Error becomes one ValidationError whose field ErrorKey chooses.
GateCredentials ==
    /\ gate.pc = "credentials"
    /\ \E ticket \in BOOLEAN :
       \E krb5_code \in (IF ticket THEN {""} ELSE KRB5ErrCode \cup {""}) :
        LET call == validate_credentials(ticket, gate.kdc, krb5_code)
            seen == [gate EXCEPT !.validated = TRUE, !.ticket = ticket, !.kinits = call.kinits]
        IN gate' =
            IF call.krb5_code = "" THEN [seen EXCEPT !.pc = "accepted"]
            ELSE [seen EXCEPT !.pc = "rejected", !.by = "KRB5Error", !.code = call.krb5_code,
                              !.verrors = << <<ErrorKey(call.krb5_code, gate.new.kerberos_principal),
                                               call.krb5_code, 0>> >>]
    /\ UNCHANGED <<ds_state, config, workgroup, realms, keytab, dc, lock, job, netbiosname, appvars>>

\* __start, lines 805-825, for the update that validation accepted and
\* whose join succeeded: domain_info is asked again, then get_cred for the
\* machine account, kdestroy, and do_kinit with the 'KDC server' of that
\* second answer as kdc_override.
GateMachineKinit ==
    /\ gate.pc = "accepted" /\ gate.validated /\ gate.machine = NoMachine
    /\ \E info \in RunResults, ok \in BOOLEAN :
        gate' = [gate EXCEPT !.machine =
                    IF info.returncode # 0 THEN [calls |-> <<"domain_info">>, kdc |-> ""]
                    ELSE IF ~ok THEN [calls |-> <<"domain_info", "get_cred">>, kdc |-> ""]
                    ELSE [calls |-> <<"domain_info", "get_cred", "kdestroy", "do_kinit">>,
                          kdc |-> info.kdc]]
    /\ UNCHANGED <<ds_state, config, workgroup, realms, keytab, dc, lock, job, netbiosname, appvars>>

NextGate ==
    \/ GateCommonValidate \/ GateCheck \/ GatePreflight
    \/ GateRun \/ GateFlush \/ GateDomainInfo \/ GateCredentials
    \/ GateMachineKinit

SpecGate == InitGate /\ [][NextGate]_vars

----------------------------------------------------------------------------
\* apps/events.py: the handler of docker events

adsvars == <<ds_state, config, workgroup, realms, keytab, dc, lock, job, netbiosname, gate>>

Running(h) == handler[h].pc # "idle"

\* docker: an app changes state and an event for it is on its way.
AppChange(a) ==
    /\ app[a].state < MaxChanges
    /\ app' = [app EXCEPT ![a].state = @ + 1, ![a].pending = @ + 1]
    /\ UNCHANGED <<PROCESSING_APP_EVENT, handler, adsvars>>

\* app_event, lines 26-31, up to the first await: an event is delivered;
\* the handler returns when the app is in the set, and adds it otherwise.
\* Invocations are interchangeable: an event starts the first free one.
app_event(h, project_name) ==
    LET app_name == get_app_name_from_project_name(project_name) IN
    /\ ~Running(h)
    /\ \A g \in Handlers : g < h => Running(g)
    /\ app[app_name].pending > 0
    /\ app' = [app EXCEPT ![app_name].pending = @ - 1,
                          ![app_name].delivered = app[app_name].state]
    /\ IF app_name \in PROCESSING_APP_EVENT
        THEN /\ handler' = [handler EXCEPT ![h].outcome = "returned"]
             /\ UNCHANGED PROCESSING_APP_EVENT
        ELSE /\ PROCESSING_APP_EVENT' = PROCESSING_APP_EVENT \cup {app_name}
             /\ handler' = [handler EXCEPT ![h] =
                    [IdleHandler EXCEPT !.pc = "process", !.app_name = app_name]]
    /\ UNCHANGED adsvars

\* process, line 18: app.query reads the app as it is now; it may find no
\* such app, and it may raise.
ProcessQuery(h) ==
    /\ handler[h].pc = "process"
    /\ LET a == handler[h].app_name IN
       \E out \in {"found", "missing", "raise"} :
        CASE out = "found" ->
                /\ handler' = [handler EXCEPT ![h].fields = app[a].state, ![h].pc = "queried"]
                /\ app' = [app EXCEPT ![a].queried = app[a].state]
          [] out = "missing" ->
                /\ handler' = [handler EXCEPT ![h].pc = "finally"]
                /\ app' = [app EXCEPT ![a].queried = app[a].state, ![a].last = "missing"]
          [] out = "raise" ->
                /\ handler' = [handler EXCEPT ![h].raised = TRUE, ![h].pc = "finally"]
                /\ app' = [app EXCEPT ![a].last = "raised"]
    /\ UNCHANGED <<PROCESSING_APP_EVENT, adsvars>>

\* process, lines 18-23: cache.has_key of the stop key, then send_event
\* with the fields read at line 18.
ProcessSend(h) ==
    /\ handler[h].pc = "queried"
    /\ LET a == handler[h].app_name IN
       \E out \in {"send", "has_key", "raise"} :
        CASE out = "send" ->
                /\ handler' = [handler EXCEPT ![h].pc = "finally"]
                /\ app' = [app EXCEPT ![a].sent = handler[h].fields, ![a].last = "sent"]
          [] out = "has_key" ->
                /\ handler' = [handler EXCEPT ![h].pc = "finally"]
                /\ app' = [app EXCEPT ![a].last = "has_key"]
          [] out = "raise" ->
                /\ handler' = [handler EXCEPT ![h].raised = TRUE, ![h].pc = "finally"]
                /\ app' = [app EXCEPT ![a].last = "raised"]
    /\ UNCHANGED <<PROCESSING_APP_EVENT, adsvars>>

\* A handler that releases the name only when process returned.
Released_onReturn(processing, app_name, raised) ==
    IF raised THEN processing ELSE processing \ {app_name}

\* Lines 37-38: finally: PROCESSING_APP_EVENT.remove(app_name)
Released(processing, app_name, raised) == processing \ {app_name}

\* Lines 35-36: except Exception: the exception is logged, and the handler
\* returns.
Outcome(raised) == "returned"

\* app_event, lines 33-38, from the end of process on.
HandlerEnd(h) ==
    /\ handler[h].pc = "finally"
    /\ PROCESSING_APP_EVENT' =
            Released(PROCESSING_APP_EVENT, handler[h].app_name, handler[h].raised)
    /\ handler' = [handler EXCEPT ![h] =
            [IdleHandler EXCEPT !.outcome = Outcome(handler[h].raised)]]
    /\ UNCHANGED <<app, adsvars>>

NextEvents ==
    \/ \E a \in Apps : AppChange(a)
    \/ \E h \in Handlers :
        \/ \E project_name \in ProjectNames : app_event(h, project_name)
        \/ ProcessQuery(h) \/ ProcessSend(h) \/ HandlerEnd(h)

SpecEvents == Init /\ [][NextEvents]_vars

\* The same pass with every awaited call answering: the command and the
\* flush are awaited by the one coroutine of the update, so a step that
\* can be taken is taken.
SpecGateFair == InitGate /\ [][NextGate]_vars /\ WF_vars(NextGate)

----------------------------------------------------------------------------
\* Properties

Executing(j) == job[j].pc \notin {"idle", "waiting"}

PostJoinErrors == {"register_dns", "add_nfs_spn", "store_ad_keytab"}

\* an exception was raised inside post_join_setup
PostJoinFailed(log) == \E e \in PostJoinErrors : Has(log, "raise:" \o e)

\* the exception has left __start and is in the hands of do_update
StartErrored(j) == job[j].kind = "update" /\ job[j].pc \in {"upd_except", "raising"}
                     /\ Has(job[j].log, "state:JOINING")

\* __start ran to its last line
StartRanToEnd(j) ==
    \/ job[j].pc = "st_return"
    \/ job[j].pc = "returning" /\ \E ret \in neterr : Has(job[j].log, "return:" \o ret)

\* C1: when post_join_setup raises (DNS registration, SPN job or keytab
\* storage) after a successful join, _net_ads_leave is called exactly once,
\* and by the time the error is out of the start sequence the call was made;
\* no start sequence calls it twice.
C1_LeaveOnceBeforeError ==
    \A j \in Jobs : job[j].kind = "update" =>
        /\ Count(job[j].log, "leave_invoked") <= 1
        /\ (StartErrored(j) /\ PostJoinFailed(job[j].log)) =>
                /\ Has(job[j].log, "joined")
                /\ Count(job[j].log, "leave_invoked") = 1
                /\ \E a, b \in 1..Len(job[j].log) :
                        /\ a < b
                        /\ job[j].log[a] \in {"raise:" \o e : e \in PostJoinErrors}
                        /\ job[j].log[b] = "leave_invoked"

C1_Witness ==
    \E j \in Jobs : /\ job[j].pc = "upd_except"
                    /\ Has(job[j].log, "raise:add_nfs_spn")
                    /\ Count(job[j].log, "leave_invoked") = 1

\* C2: when post_join_setup raised, the error that reaches do_update is the
\* error of post_join_setup, whatever happens on the roll-back path.
C2_OriginalErrorWins ==
    \A j \in Jobs : (StartErrored(j) /\ PostJoinFailed(job[j].log)) =>
        job[j].err \in PostJoinErrors

\* C3: the join command runs at most once in a start sequence, and only
\* after the probe said NOTJOINED; never after JOINED or FAULT.
C3_JoinOnlyWhenNotJoined ==
    \A j \in Jobs :
        /\ Count(job[j].log, "join") <= 1
        /\ Has(job[j].log, "join") => Has(job[j].log, "probe:NOTJOINED")
        /\ (Has(job[j].log, "probe:JOINED") \/ Has(job[j].log, "probe:FAULT")) =>
                ~Has(job[j].log, "join")

C3_Witness ==
    /\ \E j \in Jobs : Has(job[j].log, "return:JOINED") /\ Has(job[j].log, "probe:JOINED")
                        /\ ~Has(job[j].log, "join")

\* C4: at most one do_update or leave is executing at any time, and it is
\* the holder of the lock.
C4_OneOperation ==
    \A j, k \in Jobs : (Executing(j) /\ Executing(k)) => (j = k /\ lock = j)

C4_Witness ==
    \E j, k \in Jobs : /\ Executing(j) /\ ds_state = "JOINING"
                       /\ job[k].pc = "waiting" /\ job[k].kind = "leave"

\* C5: a request made while the state is JOINING or LEAVING is refused at
\* once: it is never put in the queue.
C5_BusyRefused ==
    [][\A j \in Jobs :
        ~(ds_state \in {"JOINING", "LEAVING"} /\ job[j].pc = "idle" /\ job'[j].pc = "waiting")]_vars

\* C6: a start sequence that ends in an error after a successful join has
\* called the compensating leave.
C6_CompensatedAfterJoin ==
    \A j \in Jobs : (StartErrored(j) /\ Has(job[j].log, "joined")) =>
        Has(job[j].log, "leave_invoked")

\* C7: after a leave command with a non-zero exit the leave operation goes
\* on: no secrets backup is made, an error can only come from a later
\* collaborator, and once the row is cleared the DNS records, the keytab
\* row and the realm row are gone and the state is DISABLED.  A secrets
\* backup is made only after a leave command that exited 0.
C7_LeaveTolerant ==
    \A j \in Jobs : job[j].kind = "leave" =>
        /\ (Has(job[j].log, "secrets_backup") \/ Has(job[j].log, "warn:secrets_backup"))
                => Has(job[j].log, "leave:zero")
        /\ Has(job[j].log, "leave:nonzero") =>
            /\ ~Has(job[j].log, "secrets_backup") /\ ~Has(job[j].log, "warn:secrets_backup")
            /\ job[j].pc = "raising" => job[j].err \in {"unregister_dns", "kerberos_stop"}
            /\ job[j].pc \in {"lv_tail", "returning"} =>
                /\ ~dc.dns /\ ~keytab /\ job[j].ad.kerberos_realm \notin realms
                /\ config = FreshConfig
                /\ ds_state = "DISABLED"

C7_Witness ==
    \E j \in Jobs : /\ job[j].kind = "leave" /\ job[j].pc = "returning"
                    /\ Has(job[j].log, "leave:nonzero") /\ Has(job[j].log, "delete_keytab")
                    /\ dc.account

\* C8: the probe's result is decided by the exit status and the text: exit
\* 0 is JOINED; otherwise NOTJOINED exactly when the text holds one of the
\* four signatures, and FAULT for every other text.
C8_ProbeClassification ==
    [][\A j \in Jobs : (job[j].pc = "st_classify" /\ job'[j].pc # "st_classify") =>
        LET n == job[j].netads
            ret == job'[j].ret
        IN /\ n.returncode = 0 => ret = "JOINED"
           /\ n.returncode # 0 =>
                /\ ret = "NOTJOINED" <=> n.mid \in SigNames
                /\ ret = "FAULT" <=> n.mid \notin SigNames]_vars

C8_Witness ==
    \E j \in Jobs : job[j].pc = "st_join" /\ job[j].ret = "NOTJOINED"

C11_LifecycleEdges ==
    [][ds_state' # ds_state =>
        <<ds_state, ds_state'>> \in
            {<<"DISABLED", "JOINING">>, <<"JOINING", "HEALTHY">>, <<"JOINING", "FAULTED">>,
             <<"HEALTHY", "LEAVING">>, <<"FAULTED", "LEAVING">>, <<"LEAVING", "DISABLED">>}]_vars

\* C12: the persisted row never holds a bindpw, whatever updates and
\* leaves ran, with or without a password, to the end or to an error.
C12_BindpwNeverPersisted ==
    "bindpw" \notin DOMAIN config

C12_Witness ==
    \E j \in Jobs : /\ job[j].kind = "update" /\ job[j].data.bindpw = "secret"
                    /\ job[j].pc = "upd_kstart" /\ config.enable
                    /\ config.domainname = "EXAMPLE.COM"

C15_Batching ==
    LET new == gate.new
        old == gate.old
        facts == gate.facts
        v == gate.verrors
        Entries(attr, why) == Cardinality({i \in 1..Len(v) : v[i] = <<attr, why, 0>>})
        B(x) == IF x THEN 1 ELSE 0
        noCred == new.bindpw = "" /\ new.kerberos_principal = ""
        bothCred == new.bindpw # "" /\ new.kerberos_principal # ""
        altered == old.enable /\ new.kerberos_realm # old.kerberos_realm
    IN /\ (gate.pc = "rejected" /\ gate.by = "ValidationErrors" /\ new.enable) =>
            /\ Entries("activedirectory_update.enable", "no pool") = B(~facts.pool)
            /\ Entries("activedirectory_update.enable", "ldap enabled") = B(facts.ldap_enabled)
            /\ Entries("activedirectory_update.kerberos_realm", "altered") = B(altered)
            /\ Entries("activedirectory_update.bindname", "no credentials") = B(noCred)
            /\ Entries("activedirectory_update.kerberos_principal", "both") = B(bothCred)
       /\ (gate.pc \in {"preflight", "run", "flush", "info", "credentials", "accepted"}
                /\ new.enable) =>
            (facts.pool /\ ~facts.ldap_enabled /\ ~altered /\ ~noCred /\ ~bothCred)

C15_Witness ==
    /\ gate.pc = "rejected" /\ gate.by = "ValidationErrors"
    /\ gate.new.enable /\ gate.old.enable
    /\ gate.new.bindpw = "" /\ gate.new.kerberos_principal = ""
    /\ gate.old.kerberos_realm = RealmId /\ gate.new.kerberos_realm = 0
    /\ gate.verrors = << <<"activedirectory_update.kerberos_realm", "altered", 0>>,
                         <<"activedirectory_update.bindname", "no credentials", 0>> >>

\* C16: the field a KRB5Error is reported under is decided by the code
\* and by whether a principal is configured: the realm name for a clock
\* skew in either mode; the bind name for an unknown client principal
\* without a principal; for every other code, listed or not, the keytab
\* principal when one is configured and the password otherwise.  The report
\* holds that one entry.
C16_Classification ==
    (gate.pc = "rejected" /\ gate.by = "KRB5Error") =>
        LET principal_present == gate.new.kerberos_principal # ""
            field == gate.verrors[1][1]
        IN /\ Len(gate.verrors) = 1
           /\ gate.code \in KRB5ErrCode
           /\ gate.code = "KRB5KRB_AP_ERR_SKEW" => field = "activedirectory.domainname"
           /\ (gate.code = "KRB5KDC_ERR_C_PRINCIPAL_UNKNOWN" /\ ~principal_present)
                => field = "activedirectory.bindname"
           /\ (gate.code # "KRB5KRB_AP_ERR_SKEW"
                    /\ ~(gate.code = "KRB5KDC_ERR_C_PRINCIPAL_UNKNOWN" /\ ~principal_present))
                => field = (IF principal_present THEN "activedirectory.kerberos_principal"
                            ELSE "activedirectory.bindpw")

C16_Witness ==
    /\ gate.pc = "rejected" /\ gate.by = "KRB5Error"
    /\ gate.code = "KRB5KRB_AP_ERR_SKEW" /\ gate.new.kerberos_principal # ""
    /\ gate.verrors[1][1] = "activedirectory.domainname"

\* C17 as stated: an unknown client principal is reported under the bind
\* name in both credential modes.
C17_AlwaysBindname ==
    (gate.pc = "rejected" /\ gate.by = "KRB5Error"
            /\ gate.code = "KRB5KDC_ERR_C_PRINCIPAL_UNKNOWN") =>
        gate.verrors[1][1] = "activedirectory.bindname"

\* C17, amended: an unknown client principal is reported under the bind
\* name only when a password was used; with a keytab principal configured
\* it stays under the keytab principal.
C17_BindnameOnlyWithPassword ==
    (gate.pc = "rejected" /\ gate.by = "KRB5Error"
            /\ gate.code = "KRB5KDC_ERR_C_PRINCIPAL_UNKNOWN") =>
        /\ gate.new.kerberos_principal = "" =>
                (gate.new.bindpw # "" /\ gate.verrors[1][1] = "activedirectory.bindname")
        /\ gate.new.kerberos_principal # "" =>
                gate.verrors[1][1] = "activedirectory.kerberos_principal"

C17_Witness ==
    /\ gate.pc = "rejected" /\ gate.by = "KRB5Error"
    /\ gate.code = "KRB5KDC_ERR_C_PRINCIPAL_UNKNOWN"
    /\ gate.new.kerberos_principal = "NAS$@EXAMPLE.COM" /\ gate.new.bindpw = ""
    /\ gate.verrors[1][1] = "activedirectory.kerberos_principal"

\* C18: with allow_dns_updates on an enabling row, each resolved address
\* adds one error for each class it is in (reserved, loopback, link-local,
\* multicast) and an address in no class adds none; for 127.0.0.1,
\* 224.0.0.1, 203.0.113.5 the report holds exactly two address errors.
C18_ReservedAddresses ==
    (gate.pc # "off" /\ gate.pc # "common_validate" /\ gate.by \in {"", "ValidationErrors"}
            /\ gate.new.enable /\ gate.new.allow_dns_updates /\ ~gate.facts.standby) =>
        LET addrs == gate.facts.addresses
            v == gate.verrors
            Classes(a) ==
                CASE a = [v |-> 4, w |-> <<127, 0, 0, 1>>] -> {"loopback"}
                  [] a = [v |-> 4, w |-> <<224, 0, 0, 1>>] -> {"multicast"}
                  [] a = [v |-> 4, w |-> <<203, 0, 113, 5>>] -> {}
                  [] a = [v |-> 4, w |-> <<240, 0, 0, 1>>] -> {"reserved"}
                  [] a = [v |-> 4, w |-> <<169, 254, 1, 1>>] -> {"link-local"}
                  [] a = [v |-> 6, w |-> <<0, 0, 0, 0, 0, 0, 0, 1>>] -> {"reserved", "loopback"}
            About(k) == {i \in 1..Len(v) : v[i][1] = "activedirectory_update.allow_dns_updates"
                                            /\ v[i][3] = k}
        IN /\ \A k \in 1..Len(addrs) :
                /\ Cardinality(About(k)) = Cardinality(Classes(addrs[k]))
                /\ {v[i][2] : i \in About(k)} = Classes(addrs[k])
           /\ addrs = <<[v |-> 4, w |-> <<127, 0, 0, 1>>], [v |-> 4, w |-> <<224, 0, 0, 1>>],
                        [v |-> 4, w |-> <<203, 0, 113, 5>>]>>
                => /\ Cardinality({i \in 1..Len(v) : v[i][3] > 0}) = 2
                   /\ About(3) = {}

C18_Witness ==
    /\ gate.pc = "rejected" /\ gate.by = "ValidationErrors"
    /\ gate.new.enable /\ gate.new.allow_dns_updates
    /\ gate.facts.addresses = <<IPv4(127, 0, 0, 1), IPv4(224, 0, 0, 1), IPv4(203, 0, 113, 5)>>
    /\ gate.verrors = << <<"activedirectory_update.allow_dns_updates", "loopback", 1>>,
                         <<"activedirectory_update.allow_dns_updates", "multicast", 2>> >>

\* a step in which do_update ends with a validation error
ValidationFailed(j) ==
    /\ job[j].pc = "upd_validate" /\ job'[j].pc = "raising"
    /\ job'[j].err \in {"ValidationError", "ValidationErrors"}

\* C14: when do_update ends with a validation error, the AD row, the SMB
\* configuration (NetBIOS name, workgroup), the realm and keytab rows and
\* the lifecycle state are what they were before the call.
C14_ValidationNoMutation ==
    [][\A j \in Jobs : ValidationFailed(j) =>
        UNCHANGED <<config, netbiosname, workgroup, realms, keytab, ds_state>>]_vars

\* C19: an enabling update with no credential, or with both a password and
\* a stored principal, is rejected with nothing persisted and no join
\* started; an enabling update that gets through has exactly one of them.
C19_ExactlyOneCredential ==
    [][\A j \in Jobs : (job[j].pc = "upd_validate" /\ job'[j].data.enable) =>
        LET password == job'[j].data.bindpw # ""
            principal == job'[j].ad.kerberos_principal # ""
        IN /\ (password <=> principal) =>
                /\ job'[j].pc = "raising"
                /\ UNCHANGED <<config, netbiosname, workgroup, realms, keytab, ds_state, dc>>
           /\ job'[j].pc = "upd_persist" => (password <=> ~principal)]_vars

\* C20: an update of an enabled service (old.enable and new.enable) that
\* changes the realm reference is rejected and persists nothing; and the
\* persisted realm reference is changed only by a leave, by a disabling
\* update, or by an update of a service that was not enabled.
C20_RealmFixedWhileEnabled ==
    [][/\ \A j \in Jobs :
            (job[j].pc = "upd_validate" /\ config.enable /\ job'[j].data.enable
                    /\ job'[j].ad.kerberos_realm # config.kerberos_realm) =>
                /\ job'[j].pc = "raising"
                /\ job'[j].err \in {"ValidationError", "ValidationErrors"}
                /\ UNCHANGED <<config, netbiosname, workgroup, realms, keytab, ds_state, dc>>
       /\ config'.kerberos_realm # config.kerberos_realm =>
            \E j \in Jobs :
                /\ Executing(j) /\ job'[j].pc # job[j].pc
                /\ \/ job[j].kind = "leave"
                   \/ job[j].kind = "update" /\ ~(job[j].old_enable /\ job[j].data.enable)]_vars

C20_Witness ==
    \E j \in Jobs : /\ job[j].kind = "update" /\ job[j].pc = "raising"
                    /\ job[j].err = "ValidationErrors"
                    /\ job[j].old_enable /\ job[j].data.enable /\ config.enable
                    /\ job[j].ad.kerberos_realm # config.kerberos_realm
                    /\ config.kerberos_realm = RealmId /\ ds_state = "HEALTHY"

\* C21: an update that passed validation is dispatched on (old.enable,
\* new.enable): the start sequence is entered exactly when the service was
\* disabled and is being enabled, the stop sequence exactly when it was
\* enabled and is being disabled; enabled before and after, the only
\* service action is the restart of idmap; disabled before and after,
\* nothing is done.
C21_Dispatch ==
    \A j \in Jobs :
        (/\ job[j].kind = "update" /\ Executing(j)
         /\ job[j].pc \notin {"upd_validate", "upd_persist"}
         /\ job[j].err \notin {"ValidationError", "ValidationErrors"}) =>
        LET o == job[j].old_enable
            n == job[j].data.enable
            log == job[j].log
            started == Has(log, "state:JOINING") \/ job[j].pc = "st_begin"
            stopped == Has(log, "state:LEAVING") \/ job[j].pc = "stop_begin"
        IN  /\ started => ~o /\ n
            /\ stopped => o /\ ~n
            /\ (~o /\ n) => started \/ job[j].pc = "upd_kstart" \/ job[j].err # ""
                               \/ (job[j].pc = "returning" /\ log = <<>>)
            /\ (o /\ ~n) => stopped
            /\ (o /\ n) => \/ job[j].pc = "upd_restart" /\ log = <<>>
                           \/ job[j].pc = "returning" /\ log = <<"restart_idmap">>
            /\ (~o /\ ~n) => job[j].pc = "returning" /\ log = <<>>
            /\ Has(log, "restart_idmap") => o /\ n

C21_Witness ==
    \E j \in Jobs : /\ job[j].kind = "update" /\ job[j].pc = "returning"
                    /\ job[j].old_enable /\ job[j].data.enable
                    /\ job[j].log = <<"restart_idmap">>

\* C23 as stated: a failure while the identity mapping or the time
\* servers are configured after a join never ends the start sequence with
\* an error.
C23_SubsystemFailuresNotFatal ==
    \A j \in Jobs : job[j].err \notin {"set_idmap", "set_ntp_servers"}

\* C24: privileges are granted only when the start sequence classified the
\* machine as JOINED, and a failure of the grant leaves the job without an
\* error and the directory state HEALTHY.
C24_PrivilegesNonFatal ==
    \A j \in Jobs :
        LET log == job[j].log IN
        /\ (Has(log, "add_privileges") \/ Has(log, "warn:add_privileges")) =>
                job[j].ret = "JOINED"
        /\ Has(log, "warn:add_privileges") =>
                /\ job[j].err = ""
                /\ job[j].pc \in {"st_return", "returning"}
                /\ ds_state = "HEALTHY"
        /\ (job[j].pc = "st_return" /\ job[j].ret = "JOINED") =>
                (Has(log, "add_privileges") \/ Has(log, "warn:add_privileges"))

C24_Witness ==
    \E j \in Jobs : /\ job[j].pc = "returning" /\ job[j].err = ""
                    /\ Has(job[j].log, "warn:add_privileges")
                    /\ Has(job[j].log, "return:JOINED")
                    /\ ds_state = "HEALTHY"

\* C25: a leave that completes without an error leaves the state DISABLED
\* and the row with enable false, no site, no bind name, no realm, no
\* principal and no domain name, whether the leave command succeeded or
\* failed.
C25_LeaveEndsCleared ==
    \A j \in Jobs :
        (job[j].kind = "leave" /\ job[j].pc = "returning") =>
            /\ ds_state = "DISABLED"
            /\ ~config.enable
            /\ config.site = "" /\ config.bindname = ""
            /\ config.kerberos_realm = 0 /\ config.kerberos_principal = ""
            /\ config.domainname = ""
            /\ (Has(job[j].log, "leave:zero") \/ Has(job[j].log, "leave:nonzero"))

C25_Witness ==
    \E j \in Jobs : /\ job[j].kind = "leave" /\ job[j].pc = "returning"
                    /\ Has(job[j].log, "leave:zero")
                    /\ job[j].ad.site = "SiteM"
                    /\ job[j].ad.kerberos_realm = RealmId
                    /\ config = FreshConfig

\* C26: a leave that finds no domain name in the configuration raises at
\* once: no privilege is removed, no ticket requested, no leave command
\* run, no progress reported, no record deleted and no state changed.
C26_LeaveWithoutDomain ==
    [][\A j \in Jobs :
        (job[j].pc = "lv_begin" /\ job'[j].pc # "lv_begin" /\ config.domainname = "") =>
            /\ job'[j].pc = "raising"
            /\ job'[j].err = "no_domainname"
            /\ job'[j].log = <<"raise:no_domainname">>
            /\ job'[j].progress = <<>>
            /\ UNCHANGED <<ds_state, config, workgroup, realms, keytab, dc, netbiosname>>]_vars

C26_Witness ==
    \E j \in Jobs : /\ job[j].kind = "leave" /\ job[j].pc = "raising"
                    /\ job[j].err = "no_domainname" /\ config.domainname = ""
                    /\ config = FreshConfig /\ ds_state = "DISABLED"

\* C27: the percentages a job reports never decrease, and a start that ran
\* to its last line, a stop that ran to its end and a leave that returned
\* have reported 100 last.
C27_ProgressMonotone ==
    \A j \in Jobs :
        LET p == job[j].progress
            done == \/ job[j].kind = "leave" /\ job[j].pc = "returning"
                    \/ job[j].kind = "update" /\ StartRanToEnd(j)
                    \/ /\ job[j].kind = "update" /\ job[j].pc = "returning"
                       /\ Has(job[j].log, "state:LEAVING")
        IN  /\ \A i \in 1..(Len(p) - 1) : p[i] <= p[i + 1]
            /\ \A i \in 1..Len(p) : p[i] \in 0..100
            /\ done => Len(p) > 0 /\ p[Len(p)] = 100

C27_Witness ==
    \E j \in Jobs : /\ job[j].kind = "update" /\ job[j].pc = "returning"
                    /\ job[j].progress = <<0, 5, 20, 30, 40, 50, 60, 70, 75, 80, 90, 100, 100>>

\* C29: the site found by the lookup is taken only when the configuration
\* names none: past the detection the start sequence works with the
\* configured site when there is one, and with a site of the lookup
\* otherwise; the stored site is the configured one throughout.
C29_SiteKept ==
    \A j \in Jobs :
        /\ (job[j].kind = "update" /\ job[j].pc \in {"st_workgroup", "st_testjoin", "st_classify",
                                                       "st_join", "pjs_dns", "pjs_spn", "pjs_keytab"}) =>
                IF config.site # "" THEN job[j].ad.site = config.site
                ELSE job[j].ad.site \in DcSites
        /\ job[j].err = "set_kerberos_servers" => config.site = ""

C29_Witness ==
    \E j \in Jobs : /\ job[j].kind = "update" /\ job[j].pc = "st_workgroup"
                    /\ config.site = "SiteM" /\ job[j].ad.site = "SiteM"

\* C22: the helper runs its command at most twice and flushes the cache at
\* most once; when it has returned, a first run that succeeded was the
\* only run, with no flush, and is the result; a first run that failed was
\* followed by one flush and one more run, whose result, success or
\* failure, is the one returned; and a call of the helper always comes to
\* an end.
C22_RetryOnce ==
    /\ [](/\ Len(gate.runs) <= 2 /\ gate.flushes <= 1
          /\ gate.pc = "info" =>
                /\ Len(gate.runs) >= 1
                /\ gate.runs[1].returncode = 0 =>
                        (Len(gate.runs) = 1 /\ gate.flushes = 0 /\ gate.rv = gate.runs[1])
                /\ gate.runs[1].returncode # 0 =>
                        (Len(gate.runs) = 2 /\ gate.flushes = 1 /\ gate.rv = gate.runs[2]))
    /\ (gate.pc = "run" ~> gate.pc \notin {"run", "flush"})

C22_Witness ==
    /\ gate.pc = "info" /\ gate.flushes = 1 /\ Len(gate.runs) = 2
    /\ gate.runs[1].stderr = "timeout"
    /\ gate.runs[2].stderr = "Didn't find the ldap server!"
    /\ gate.rv = gate.runs[2]

\* C28: when a ticket is held the credentials are accepted with no ticket
\* requested; otherwise exactly one ticket is requested, from the KDC that
\* domain_info named, and the update is refused with the KRB5Error exactly
\* when that request failed.
C28_ShortCircuit ==
    /\ ~gate.validated => gate.kinits = <<>>
    /\ gate.validated =>
        /\ gate.ticket => (gate.kinits = <<>> /\ gate.pc = "accepted" /\ gate.code = "")
        /\ ~gate.ticket =>
            /\ gate.kinits = <<gate.kdc>> /\ gate.kdc \in KdcServers
            /\ (gate.code # "") = (gate.pc = "rejected" /\ gate.by = "KRB5Error")
            /\ (gate.code = "") = (gate.pc = "accepted")

C28_Witness ==
    /\ gate.validated /\ ~gate.ticket /\ gate.kinits = <<"10.0.0.2">>
    /\ gate.pc = "rejected" /\ gate.code = "KRB5KDC_ERR_PREAUTH_FAILED"

\* C30: an enabling update whose probe reports a clock offset of more than
\* 180 seconds either way is refused under the realm name, and one within
\* 180 seconds is not refused for its offset: 180 and -180 pass, 181 and
\* -181 are refused.
C30_ClockOffset ==
    [][(gate.pc = "info" /\ gate'.pc # "info" /\ gate.rv.returncode = 0) =>
        LET offset == gate.rv.offset
            refused == /\ gate'.pc = "rejected" /\ gate'.by = "ValidationError"
                       /\ gate'.verrors = << <<"activedirectory.domainname", "time offset", 0>> >>
        IN /\ (offset > 180 \/ offset < -180) => refused
           /\ (offset <= 180 /\ offset >= -180) =>
                /\ ~refused
                /\ gate'.pc = "rejected" => gate'.verrors[1][2] = "nameservers"
           /\ offset \in {180, -180} => ~refused
           /\ offset \in {181, -181} => refused]_vars

C30_Witness ==
    /\ gate.pc = "rejected" /\ gate.by = "ValidationError"
    /\ gate.verrors = << <<"activedirectory.domainname", "time offset", 0>> >>
    /\ gate.rv.returncode = 0 /\ gate.rv.offset = -181
    /\ gate.new.enable /\ ~gate.old.enable

\* C32: post_join_setup registers DNS, then runs and awaits the SPN job,
\* then stores the keytab, in that order and after the join; the keytab is
\* not stored before the SPN job has ended, and a step that failed is
\* followed by none of the later ones.
C32_PostJoinOrder ==
    \A j \in Jobs :
        LET log == job[j].log
            Idx(ev) == CHOOSE i \in 1..Len(log) : log[i] = ev
            Before(a, b) == Has(log, a) /\ Idx(a) < Idx(b)
        IN  /\ Has(log, "register_dns") => Before("joined", "register_dns")
            /\ Has(log, "add_nfs_spn") => Before("register_dns", "add_nfs_spn")
            /\ Has(log, "store_ad_keytab") => Before("add_nfs_spn", "store_ad_keytab")
            /\ job[j].pc = "pjs_spn" => Has(log, "register_dns")
            /\ job[j].pc = "pjs_keytab" => Has(log, "add_nfs_spn")
            /\ Has(log, "raise:register_dns") =>
                    ~Has(log, "add_nfs_spn") /\ ~Has(log, "raise:add_nfs_spn")
                    /\ ~Has(log, "store_ad_keytab") /\ ~Has(log, "raise:store_ad_keytab")
            /\ Has(log, "raise:add_nfs_spn") =>
                    ~Has(log, "store_ad_keytab") /\ ~Has(log, "raise:store_ad_keytab")
            /\ \A ev \in {"register_dns", "add_nfs_spn", "store_ad_keytab"} : Count(log, ev) <= 1

C32_Witness ==
    \E j \in Jobs : /\ job[j].pc = "st_commit" /\ keytab /\ dc.dns
                    /\ \E i \in 1..(Len(job[j].log) - 2) :
                            /\ job[j].log[i] = "register_dns"
                            /\ job[j].log[i + 1] = "add_nfs_spn"
                            /\ job[j].log[i + 2] = "store_ad_keytab"

\* C33 as stated: a leave attempts the removal of the granted privileges
\* only after the ticket for the supplied credentials was acquired.
C33_PrivilegesAfterTicket ==
    \A j \in Jobs :
        (job[j].kind = "leave"
            /\ (Has(job[j].log, "remove_privileges") \/ Has(job[j].log, "warn:remove_privileges")))
        => Has(job[j].log, "kinit")

\* C35: when the start sequence raised, before or after it set JOINING,
\* and the error is out of do_update, the state is DISABLED, the row says
\* enable false, and the error of the job is the one the start sequence
\* raised, whatever state the sequence had set.
C35_FailedStartDisables ==
    \A j \in Jobs :
        (/\ job[j].kind = "update" /\ job[j].pc = "raising"
         /\ (Has(job[j].log, "state:JOINING") \/ job[j].err \in {"EBUSY", "lookup_dc"})) =>
            /\ ds_state = "DISABLED"
            /\ ~config.enable
            /\ job[j].err # "" /\ Has(job[j].log, "raise:" \o job[j].err)
            /\ job[j].log[Len(job[j].log)] = "disabled"

C35_Witness ==
    \E j \in Jobs : /\ job[j].kind = "update" /\ job[j].pc = "raising"
                    /\ job[j].err = "set_idmap" /\ Has(job[j].log, "state:JOINING")
                    /\ ds_state = "DISABLED" /\ ~config.enable /\ dc.account

\* C36 as stated: whenever no update and no leave is running, the state is
\* neither JOINING nor LEAVING.
C36_NoTransientAtRest ==
    (\A j \in Jobs : ~Executing(j)) => ds_state \notin {"JOINING", "LEAVING"}

\* C37: the stored principal is set to a new name only by a start, either
\* after the join and all of post_join_setup succeeded or after a probe
\* that said JOINED with no principal stored; after a join command that
\* failed the start is in error with no post_join_setup step, no leave and
\* no principal written; after a post_join_setup that failed no principal
\* is written.
C37_PrincipalCommit ==
    /\ [][(config'.kerberos_principal # config.kerberos_principal
                /\ config'.kerberos_principal # "") =>
            \E j \in Jobs :
                /\ job[j].kind = "update" /\ job'[j].pc # job[j].pc
                /\ \/ /\ job[j].pc = "st_commit"
                      /\ Has(job[j].log, "joined") /\ Has(job[j].log, "register_dns")
                      /\ Has(job[j].log, "add_nfs_spn") /\ Has(job[j].log, "store_ad_keytab")
                      /\ ~PostJoinFailed(job[j].log)
                   \/ /\ job[j].pc = "st_already"
                      /\ Has(job[j].log, "probe:JOINED")
                      /\ config.kerberos_principal = ""]_vars
    /\ [](\A j \in Jobs :
            /\ Has(job[j].log, "raise:join") =>
                /\ job[j].err = "join" /\ job[j].pc \in {"upd_except", "raising"}
                /\ ~Has(job[j].log, "joined") /\ ~Has(job[j].log, "register_dns")
                /\ ~PostJoinFailed(job[j].log)
                /\ ~Has(job[j].log, "leave_invoked")
                /\ ~Has(job[j].log, "commit_principal")
            /\ PostJoinFailed(job[j].log) => ~Has(job[j].log, "commit_principal"))

C37_Witness ==
    \E j \in Jobs : /\ job[j].kind = "update" /\ job[j].pc = "st_generate"
                    /\ Has(job[j].log, "probe:JOINED") /\ Has(job[j].log, "commit_principal")
                    /\ config.kerberos_principal = MachineAcct(config)

\* C38: the stop sequence of a disabling update writes nothing to the row
\* but enable false: domain name, realm, principal and site stay; it runs
\* no leave command, deletes no realm or keytab row, and takes the state
\* to LEAVING and, when it runs to its end, to DISABLED.
C38_StopIsNotLeave ==
    [][\A j \in Jobs :
        (job[j].pc \in {"stop_begin", "stop_services"} /\ job'[j].pc # job[j].pc) =>
            /\ config' = [config EXCEPT !.enable = FALSE]
            /\ UNCHANGED <<workgroup, realms, keytab, dc, netbiosname>>
            /\ ~Has(job'[j].log, "leave_invoked")
            /\ job[j].pc = "stop_begin" => ds_state' = "LEAVING"
            /\ (job[j].pc = "stop_services" /\ job'[j].pc = "returning") => ds_state' = "DISABLED"
            /\ ds_state' \in {"LEAVING", "DISABLED"}]_vars

C38_Witness ==
    \E j \in Jobs : /\ job[j].kind = "update" /\ job[j].pc = "returning"
                    /\ Has(job[j].log, "state:LEAVING") /\ ds_state = "DISABLED"
                    /\ ~config.enable /\ config.domainname = "EXAMPLE.COM"
                    /\ config.kerberos_principal # "" /\ config.kerberos_realm = RealmId
                    /\ config.site = "SiteM" /\ dc.account /\ keytab

\* C39: while a leave is on its way to the ticket nothing stored changes,
\* and when the ticket request fails the leave ends with that error there:
\* no leave command, no DNS, keytab or realm record removed, the row and
\* the state as they were.
C39_LeaveKinitFailure ==
    [][\A j \in Jobs :
        (job[j].kind = "leave" /\ job[j].pc \in {"lv_begin", "lv_kinit"}) =>
            /\ UNCHANGED <<ds_state, config, workgroup, realms, keytab, dc, netbiosname>>
            /\ job'[j].err = "do_kinit" =>
                /\ job'[j].pc = "raising"
                /\ \E p \in {"remove_privileges", "warn:remove_privileges"} :
                        job'[j].log = <<p, "raise:do_kinit">>]_vars

C39_Witness ==
    \E j \in Jobs : /\ job[j].kind = "leave" /\ job[j].pc = "raising"
                    /\ job[j].err = "do_kinit" /\ ds_state = "HEALTHY"
                    /\ config.enable /\ config.kerberos_principal # "" /\ dc.account /\ keytab

\* C31 as stated: the ticket of the machine account is requested from the
\* KDC that credential validation was given earlier in the same update,
\* and the administrator's ticket is destroyed before the request.
C31_SameKdc ==
    LET calls == gate.machine.calls
        At3(name) == CHOOSE i \in 1..Len(calls) : calls[i] = name
    IN (\E i \in 1..Len(calls) : calls[i] = "do_kinit") =>
            /\ gate.machine.kdc = gate.kdc
            /\ \E i \in 1..Len(calls) : calls[i] = "kdestroy"
            /\ At3("kdestroy") < At3("do_kinit")

\* C34: at most one call of process per app is under way; the set holds
\* exactly the names of the apps whose handler is between its add and its
\* remove, so it is empty when no handler runs and a name leaves it whether
\* process returned or raised; no handler ends with an exception.
C34_AcquireOrSkip ==
    /\ \A a \in Apps :
            Cardinality({h \in Handlers : Running(h) /\ handler[h].app_name = a}) <= 1
    /\ PROCESSING_APP_EVENT = {handler[h].app_name : h \in {g \in Handlers : Running(g)}}
    /\ (\A h \in Handlers : ~Running(h)) => PROCESSING_APP_EVENT = {}
    /\ \A h \in Handlers : handler[h].outcome \in {"none", "returned"}

C34_Witness ==
    /\ \A h \in Handlers : ~Running(h)
    /\ PROCESSING_APP_EVENT = {}
    /\ app["plex"].last = "raised" /\ app["minio"].last = "sent"
    /\ \A h \in Handlers : handler[h].outcome = "returned"

\* C40 as stated: when no call of process for an app is under way and no
\* event for it is undelivered, the latest call, unless it raised, read
\* the app at or after the latest delivery, and a notification it sent
\* carries the app's present state.
C40_NoLostEvent ==
    \A a \in Apps :
        (a \notin PROCESSING_APP_EVENT /\ app[a].pending = 0 /\ app[a].last # "raised") =>
            /\ app[a].queried >= app[a].delivered
            /\ app[a].last = "sent" => app[a].sent = app[a].state

====
